---- MODULE Spec2Model ----
(***************************************************************************)
(* A model of the two coordination primitives of the backend template:     *)
(*   - modules/db/redis/locking: LockingTaskExecutor.Execute               *)
(*   - modules/ratelimit: SlidingWindowRateLimiter.Allow over a            *)
(*     CounterStore (modules/db/redis/counter)                             *)
(* Time is a discrete clock.  The distributed locker (rueidislock) and the *)
(* Redis server are external: they are modelled by their contracts.        *)
(***************************************************************************)
EXTENDS Integers, Sequences, FiniteSets, TLC

(***************************************************************************)
(* Bounds of the model.                                                    *)
(***************************************************************************)
MaxTime == 3
MaxDur == 2
MaxAcquireTimeout == 1
MaxDuoTime == 2
MaxLimit == 2
MaxWindow == 3
MaxNow == 6
MaxCalls == 4
NsPerMs == 3
MaxPairTime == 3
MaxPairCalls == 2
PairWindow == 2
MaxServed == 2
MaxMwTime == 2
WordBits == 8
BurstLimit == 10
BurstWindow == 2
MaxSize == 2
MaxCap == 1
MaxJobs == 2

Executors == {"e1", "e2"}
Prefixes == {<<>>, <<"a">>}
Names == {<<>>, <<"j">>, <<"a", "j">>}
Durations == (0 - 1) .. MaxDur

CtxErrors == {"Canceled", "DeadlineExceeded"}

Clients == {"c1", "c2"}
Idx == (0 - 1) .. MaxNow
Word == 2 ^ WordBits

Max(a, b) == IF a >= b THEN a ELSE b
Min(a, b) == IF a <= b THEN a ELSE b

(***************************************************************************)
(* LockConfiguration and the executor's options.                           *)
(***************************************************************************)
LockConfiguration ==
    [Name : Names, LockAtMostFor : Durations, LockAtLeastFor : Durations]

Option ==
    [waitForLock : BOOLEAN, acquireTimeout : 0 .. MaxAcquireTimeout,
     namePrefix : Prefixes]

DuoConfiguration ==
    [Name : Names \ {<<>>}, LockAtMostFor : {0}, LockAtLeastFor : {1}]

DuoOption ==
    [waitForLock : BOOLEAN, acquireTimeout : {0}, namePrefix : Prefixes]

VARIABLES now, locked, ex, policy, store, cl, tally, rtp, req, pool

\* The worker pool shares nothing with the executor, the limiter or the
\* middleware: their actions all leave it alone.
poolVars == <<pool>>
lockVars == <<locked, ex, poolVars>>
mwVars == <<rtp, req>>
rlVars == <<policy, store, cl, tally, mwVars, poolVars>>
vars == <<now, locked, ex, policy, store, cl, tally, rtp, req, pool>>

(***************************************************************************)
(* validateConfig: "nil" or ErrInvalidConfiguration.                       *)
(***************************************************************************)
validateConfig_NoOrderCheck(c) ==
    IF c.Name = <<>> THEN "ErrInvalidConfiguration"
    ELSE IF c.LockAtMostFor < 0 THEN "ErrInvalidConfiguration"
    ELSE IF c.LockAtLeastFor < 0 THEN "ErrInvalidConfiguration"
    ELSE "nil"

validateConfig(c) ==
    IF c.Name = <<>> THEN "ErrInvalidConfiguration"
    ELSE IF c.LockAtMostFor < 0 THEN "ErrInvalidConfiguration"
    ELSE IF c.LockAtLeastFor < 0 THEN "ErrInvalidConfiguration"
    ELSE IF c.LockAtMostFor > 0 /\ c.LockAtLeastFor > c.LockAtMostFor
         THEN "ErrInvalidConfiguration"
    ELSE "nil"

(***************************************************************************)
(* lockName: prefix + cfg.Name.                                            *)
(***************************************************************************)
lockName_NoPrefix(namePrefix, base) == base

lockName(namePrefix, base) ==
    IF namePrefix = <<>> THEN base ELSE namePrefix \o base

(***************************************************************************)
(* Contexts.  A context's error is "nil" while it is live; once set it     *)
(* never changes.  A child takes its parent's error when the parent ends   *)
(* while the child is live.                                                *)
(***************************************************************************)
Inherit(parentErr, childErr) ==
    IF childErr = "nil" THEN parentErr ELSE childErr

Expired(deadline, t) == \E d \in deadline : t >= d

AtDeadline(err, deadline, t) ==
    IF err = "nil" /\ Expired(deadline, t) THEN "DeadlineExceeded" ELSE err

(***************************************************************************)
(* NewLockingTaskExecutor: the state of one executor and of its single     *)
(* Execute invocation.                                                     *)
(***************************************************************************)
NewLockingTaskExecutor(o) ==
    [pc |-> "idle",
     waitForLock |-> o.waitForLock,
     acquireTimeout |-> o.acquireTimeout,
     namePrefix |-> o.namePrefix,
     cfg |-> [Name |-> <<>>, LockAtMostFor |-> 0, LockAtLeastFor |-> 0],
     taskNil |-> FALSE,
     lname |-> <<>>,
     callerErr |-> "nil",
     acqErr |-> "nil",
     lockErr |-> "nil",
     taskCtxErr |-> "nil",
     acqDeadline |-> {},
     taskDeadline |-> {},
     taskStart |-> 0,
     lockerCalls |-> 0,
     lockerErr |-> "none",
     taskRuns |-> 0,
     taskRet |-> "none",
     waited |-> FALSE,
     released |-> 0,
     releasedAt |-> 0,
     relCallerErr |-> "nil",
     relLockErr |-> "nil",
     result |-> "none"]

(***************************************************************************)
(* The rate limiter.  One limiter (Limit, Window) and one key; the         *)
(* counters of the key are indexed by the window index.  Durations and     *)
(* instants are in nanoseconds, the store's expiries in milliseconds of    *)
(* NsPerMs nanoseconds, unsigned words have WordBits bits.                 *)
(***************************************************************************)
Policy == [limit : 0 .. MaxLimit, window : 1 .. MaxWindow]

NoResult ==
    [err |-> TRUE, Allowed |-> FALSE, Remaining |-> 0, RetryAfter |-> 0,
     Limit |-> 0, Window |-> 0, WindowResetIn |-> 0]

IdleLock ==
    /\ locked = {}
    /\ ex = [e \in {} |-> 0]

\* BlockingPool has not been called.
IdlePool == pool = [pc |-> "none"]

\* No RuntimePolicy has been compiled and no request is served.
IdleMw ==
    /\ rtp = [parsed |-> FALSE]
    /\ req = [pc |-> "none"]

InitRLOf(clients, policies) ==
    /\ now = 0
    /\ IdleLock
    /\ IdleMw
    /\ IdlePool
    /\ policy \in policies
    /\ store = [k \in Idx |-> [n |-> 0, exp |-> {}]]
    /\ cl = [c \in clients |->
                [pc |-> "idle", nowNs |-> 0, idx |-> 0, cur |-> 0, prev |-> 0,
                 res |-> NoResult]]
    /\ tally = [calls |-> 0,
                incrs |-> [k \in Idx |-> 0],
                finished |-> [k \in Idx |-> 0],
                admitted |-> [k \in Idx |-> 0],
                prevMax |-> [k \in Idx |-> 0],
                recreated |-> [k \in Idx |-> FALSE],
                firstAt |-> [k \in Idx |-> {}],
                lastAt |-> [k \in Idx |-> {}]]

IdleRL ==
    /\ policy = [limit |-> 0, window |-> 1]
    /\ store = [k \in Idx |-> [n |-> 0, exp |-> {}]]
    /\ cl = [c \in {} |-> NoResult]
    /\ tally = [calls |-> 0]
    /\ IdleMw

InitRLWith(clients) == InitRLOf(clients, Policy)

InitRL == InitRLWith({"c1"})

(***************************************************************************)
(* math/bits on unsigned words, and the conversions between int64 and      *)
(* uint64.                                                                 *)
(***************************************************************************)
ToU64(i) == i % Word

\* Go's integer division truncates toward zero.
Quo(a, b) == IF a >= 0 THEN a \div b ELSE 0 - ((0 - a) \div b)

ToI64(u) == IF u >= Word \div 2 THEN u - Word ELSE u

Mul64(x, y) == [hi |-> (x * y) \div Word, lo |-> (x * y) % Word]

Add64(x, y, carry) ==
    [sum |-> (x + y + carry) % Word, carryOut |-> (x + y + carry) \div Word]

Div64(hi, lo, y) ==
    [quo |-> (hi * Word + lo) \div y, rem |-> (hi * Word + lo) % y]

(***************************************************************************)
(* The counter store: incr_expr.lua run by RedisCounter.Incr, and          *)
(* RedisCounter.Get.                                                       *)
(***************************************************************************)
Milliseconds(d) == d \div NsPerMs

LuaIncr_Overwrite(s, k, ttl_ms, t) ==
    [s EXCEPT ![k] = [n |-> 1, exp |-> {t + ttl_ms * NsPerMs}]]

LuaIncr_ByTwo(s, k, ttl_ms, t) ==
    LET new_count == s[k].n + 2
        expiry == IF new_count = 2 /\ ttl_ms > 0 THEN {t + ttl_ms * NsPerMs}
                  ELSE s[k].exp
    IN  [s EXCEPT ![k] = [n |-> new_count, exp |-> expiry]]

LuaIncr(s, k, ttl_ms, t) ==
    LET new_count == s[k].n + 1
        expiry == IF new_count = 1 /\ ttl_ms > 0 THEN {t + ttl_ms * NsPerMs}
                  ELSE IF ttl_ms < 0 THEN {t + NsPerMs}
                  ELSE s[k].exp
    IN  [s EXCEPT ![k] = [n |-> new_count, exp |-> expiry]]

Incr(s, k, ttl, t) == LuaIncr(s, k, Milliseconds(ttl), t)

Get(s, k) == s[k].n

ExpireKeys(s, t) ==
    [k \in DOMAIN s |->
        IF \E d \in s[k].exp : t >= d THEN [n |-> 0, exp |-> {}] ELSE s[k]]

(***************************************************************************)
(* SlidingWindowRateLimiter.Allow after the two store calls: the decision  *)
(* and the Result.                                                         *)
(***************************************************************************)
AllowedCmp_Strict(usageHi, usageLo, limitHi, limitLo) ==
    usageHi < limitHi \/ (usageHi = limitHi /\ usageLo < limitLo)

AllowedCmp(usageHi, usageLo, limitHi, limitLo) ==
    usageHi < limitHi \/ (usageHi = limitHi /\ usageLo <= limitLo)

PrevWeight_Full(windowNs, elapsedNs) == windowNs

PrevWeight_None(windowNs, elapsedNs) == 0

PrevWeight(windowNs, elapsedNs) == windowNs - elapsedNs

Elapsed_Unclamped(nowNs, currentWindowStartNs, windowNs) ==
    nowNs - currentWindowStartNs

Elapsed(nowNs, currentWindowStartNs, windowNs) ==
    Max(Min(nowNs - currentWindowStartNs, windowNs), 0)

UsedRequestsCeil(usageHi, usageLo, windowNsU) ==
    IF usageHi = 0
    THEN ((usageLo + windowNsU - 1) % Word) \div windowNsU
    ELSE IF usageHi < windowNsU
    THEN LET d == Div64(usageHi, usageLo, windowNsU)
         IN  IF d.rem # 0 /\ d.quo # Word - 1 THEN d.quo + 1 ELSE d.quo
    ELSE Word - 1

RemainingU_Wrapping(limitU, usedRequestsCeil) ==
    (limitU - usedRequestsCeil) % Word

RemainingU(limitU, usedRequestsCeil) ==
    IF usedRequestsCeil < limitU THEN limitU - usedRequestsCeil ELSE 0

Decide(limitU, window, nowNs, currentWindowIdx, cur0, prev0) ==
    LET windowNs == window
        currentWindowStartNs == currentWindowIdx * windowNs
        currentWindowCount == Max(cur0, 0)
        prevWindowCount == Max(prev0, 0)
        elapsed == Elapsed(nowNs, currentWindowStartNs, windowNs)
        prevWindowWeightNs == PrevWeight(windowNs, elapsed)
        windowResetIn == Max(window - elapsed, 0)
        windowNsU == ToU64(windowNs)
        curM == Mul64(ToU64(currentWindowCount), windowNsU)
        prevM == Mul64(ToU64(prevWindowCount), ToU64(prevWindowWeightNs))
        lo == Add64(curM.lo, prevM.lo, 0)
        hi == Add64(curM.hi, prevM.hi, lo.carryOut)
        usageLo == lo.sum
        usageHi == hi.sum
        limitM == Mul64(limitU, windowNsU)
        allowed == AllowedCmp(usageHi, usageLo, limitM.hi, limitM.lo)
        usedRequestsCeil == UsedRequestsCeil(usageHi, usageLo, windowNsU)
        remainingU == RemainingU(limitU, usedRequestsCeil)
    IN  [err |-> FALSE,
         Allowed |-> allowed,
         Remaining |-> ToI64(remainingU),
         RetryAfter |-> IF allowed THEN 0 ELSE windowResetIn,
         Limit |-> ToI64(limitU),
         Window |-> window,
         WindowResetIn |-> windowResetIn]

(***************************************************************************)
(* Actions of the rate limiter: Allow is the increment of the current      *)
(* window's counter, then the read of the previous window's counter and    *)
(* the decision.  Either store call may fail.                              *)
(***************************************************************************)
Bump(f, k) == [f EXCEPT ![k] = @ + 1]

\* The clock was read at instant t (line 108); the increment reaches the
\* store at the present instant (line 113).
AllowIncrAt(c, cap, t) ==
    /\ cl[c].pc = "idle"
    /\ tally.calls < cap
    /\ LET nowNs == t
           windowNs == policy.window
           currentWindowIdx == Quo(nowNs, windowNs)
           s == Incr(store, currentWindowIdx, policy.window * 2, now)
       IN  /\ store' = s
           /\ cl' = [cl EXCEPT ![c] =
                        [@ EXCEPT !.pc = "incremented", !.nowNs = nowNs,
                                  !.idx = currentWindowIdx,
                                  !.cur = s[currentWindowIdx].n]]
           /\ tally' = [tally EXCEPT
                           !.calls = @ + 1,
                           !.incrs = Bump(@, currentWindowIdx),
                           !.recreated[currentWindowIdx] =
                               @ \/ (tally.incrs[currentWindowIdx] > 0
                                        /\ store[currentWindowIdx].n = 0),
                           !.firstAt[currentWindowIdx] =
                               IF @ = {} THEN {nowNs} ELSE @,
                           !.lastAt[currentWindowIdx] = {nowNs}]
    /\ UNCHANGED <<now, policy, lockVars>>

AllowIncrUpTo(c, cap) == AllowIncrAt(c, cap, now)

AllowIncr(c) == AllowIncrUpTo(c, MaxCalls)

AllowIncrFailsUpTo(c, cap) ==
    /\ cl[c].pc = "idle"
    /\ tally.calls < cap
    /\ cl' = [cl EXCEPT ![c] = [@ EXCEPT !.res = NoResult]]
    /\ tally' = [tally EXCEPT !.calls = @ + 1]
    /\ UNCHANGED <<now, policy, store, lockVars>>

AllowIncrFails(c) == AllowIncrFailsUpTo(c, MaxCalls)

AllowGet(c) ==
    /\ cl[c].pc = "incremented"
    /\ LET prevWindowCount == Get(store, cl[c].idx - 1)
           r == Decide(ToU64(policy.limit), policy.window, cl[c].nowNs,
                       cl[c].idx, cl[c].cur, prevWindowCount)
       IN  /\ cl' = [cl EXCEPT ![c] =
                        [@ EXCEPT !.pc = "idle", !.prev = prevWindowCount,
                                  !.res = r]]
           /\ tally' = [tally EXCEPT
                           !.finished = Bump(@, cl[c].idx),
                           !.admitted[cl[c].idx] =
                               IF r.Allowed THEN @ + 1 ELSE @,
                           !.prevMax[cl[c].idx] = Max(@, prevWindowCount)]
    /\ UNCHANGED <<now, policy, store, lockVars>>

AllowGetFails(c) ==
    /\ cl[c].pc = "incremented"
    /\ cl' = [cl EXCEPT ![c] = [@ EXCEPT !.pc = "idle", !.res = NoResult]]
    /\ UNCHANGED <<now, policy, store, tally, lockVars>>

TickRLUntil(max) ==
    /\ now < max
    /\ now' = now + 1
    /\ store' = ExpireKeys(store, now + 1)
    /\ UNCHANGED <<policy, cl, tally, lockVars>>

TickRL == TickRLUntil(MaxNow)

NextRL ==
    \/ /\ \E c \in DOMAIN cl : AllowIncr(c)
       /\ UNCHANGED mwVars
    \/ /\ \E c \in DOMAIN cl : AllowIncrFails(c)
       /\ UNCHANGED mwVars
    \/ /\ \E c \in DOMAIN cl : AllowGet(c)
       /\ UNCHANGED mwVars
    \/ /\ \E c \in DOMAIN cl : AllowGetFails(c)
       /\ UNCHANGED mwVars
    \/ /\ TickRL
       /\ UNCHANGED mwVars

InitLock ==
    /\ now = 0
    /\ IdlePool
    /\ locked = {}
    /\ ex \in [{"e1"} -> {NewLockingTaskExecutor(o) : o \in Option}]
    /\ IdleRL

InitDuo ==
    /\ now = 0
    /\ IdlePool
    /\ locked = {}
    /\ ex \in [Executors -> {NewLockingTaskExecutor(o) : o \in DuoOption}]
    /\ IdleRL

(***************************************************************************)
(* Execute up to the acquisition: the nil-task check, validateConfig,      *)
(* lockName and the acquire context (ctx, or ctx with acquireTimeout in    *)
(* blocking mode).                                                         *)
(***************************************************************************)
Enter(x, c, isNil, t) ==
    LET y == [x EXCEPT !.cfg = c, !.taskNil = isNil]
    IN  IF isNil
        THEN [y EXCEPT !.pc = "done", !.result = "ErrTaskNil"]
        ELSE IF validateConfig(c) # "nil"
        THEN [y EXCEPT !.pc = "done", !.result = validateConfig(c)]
        ELSE [y EXCEPT !.pc = "acquiring",
                       !.lname = lockName(x.namePrefix, c.Name),
                       !.acqDeadline =
                           IF x.waitForLock /\ x.acquireTimeout > 0
                           THEN {t + x.acquireTimeout} ELSE {},
                       !.acqErr = x.callerErr]

(***************************************************************************)
(* What Execute returns for an error of locker.WithContext (blocking mode) *)
(* and of locker.TryWithContext (try-once mode).                           *)
(***************************************************************************)
Wrapped(err) == "wrapped:" \o err

WithContextErr(err) ==
    IF err = "ErrLockerClosed" THEN Wrapped(err)
    ELSE IF err \in CtxErrors THEN err
    ELSE Wrapped(err)

TryWithContextErr_Wrapped(err) ==
    IF err = "ErrLockerClosed" THEN Wrapped(err)
    ELSE Wrapped(err)

TryWithContextErr(err) ==
    IF err = "ErrNotLocked" THEN "ErrLockNotAcquired"
    ELSE IF err = "ErrLockerClosed" THEN Wrapped(err)
    ELSE Wrapped(err)

(***************************************************************************)
(* The deferred calls of Execute: taskCancel, lockCancel (the release) and *)
(* the acquire context's cancel.                                           *)
(***************************************************************************)
CancelAcquire(x) ==
    IF x.acqDeadline # {} THEN Inherit("Canceled", x.acqErr) ELSE x.acqErr

FailAcquire(x, err, res) ==
    [x EXCEPT !.pc = "done", !.lockerCalls = @ + 1, !.lockerErr = err,
              !.result = res, !.acqErr = CancelAcquire(x)]

Unwind(x, res, t) ==
    [x EXCEPT !.pc = "done", !.result = res,
              !.released = @ + 1, !.releasedAt = t,
              !.relCallerErr = x.callerErr, !.relLockErr = x.lockErr,
              !.taskCtxErr = Inherit("Canceled", @),
              !.lockErr = Inherit("Canceled", @),
              !.acqErr = CancelAcquire(x)]

(***************************************************************************)
(* The task context: lockCtx bounded by LockAtMostFor.                     *)
(***************************************************************************)
TaskDeadline_AtLeast(c, t) ==
    IF c.LockAtLeastFor > 0 THEN {t + c.LockAtLeastFor} ELSE {}

TaskDeadline(c, t) ==
    IF c.LockAtMostFor > 0 THEN {t + c.LockAtMostFor} ELSE {}

(***************************************************************************)
(* The lock is acquired: the release is deferred, the task context is      *)
(* built and the task is started.                                          *)
(***************************************************************************)
Acquired(x, t) ==
    [x EXCEPT !.pc = "running", !.lockerCalls = @ + 1, !.lockerErr = "nil",
              !.lockErr = x.acqErr,
              !.taskCtxErr = x.acqErr,
              !.taskDeadline = TaskDeadline(x.cfg, t),
              !.taskStart = t,
              !.taskRuns = @ + 1]

(***************************************************************************)
(* The minimum hold: the wait for taskStart + LockAtLeastFor and the       *)
(* select that ends it.                                                    *)
(***************************************************************************)
MinHoldUntil(x) == x.taskStart + x.cfg.LockAtLeastFor

MustWait_After(x, t) == x.cfg.LockAtLeastFor > 0 /\ t > MinHoldUntil(x)

MustWait(x, t) == x.cfg.LockAtLeastFor > 0 /\ t < MinHoldUntil(x)

SelectReady_TimerOnly(x, t) == t >= MinHoldUntil(x)

SelectReady_Always(x, t) == TRUE

SelectReady(x, t) ==
    \/ t >= MinHoldUntil(x)
    \/ x.callerErr # "nil"
    \/ x.lockErr # "nil"

(***************************************************************************)
(* The end of the task and of the wait.                                    *)
(***************************************************************************)
OnReturn(x, r, t) ==
    IF MustWait(x, t)
    THEN [x EXCEPT !.pc = "holdwait", !.taskRet = r, !.waited = TRUE]
    ELSE Unwind([x EXCEPT !.taskRet = r], r, t)

OnPanic_NoDefer(x, t) ==
    [x EXCEPT !.pc = "done", !.taskRet = "panic", !.result = "panic"]

OnPanic_Holds(x, t) == OnReturn(x, "panic", t)

OnPanic(x, t) == Unwind([x EXCEPT !.taskRet = "panic"], "panic", t)

(***************************************************************************)
(* The clock: deadlines fire, and a context that ends takes its live       *)
(* children with it.                                                       *)
(***************************************************************************)
HasLock(x) == x.pc \in {"running", "holdwait"}

InExecute(x) == x.pc \in {"acquiring", "running", "holdwait"}

Cascade(x, t) ==
    LET acq == IF InExecute(x)
               THEN Inherit(x.callerErr, AtDeadline(x.acqErr, x.acqDeadline, t))
               ELSE x.acqErr
        lock == IF HasLock(x) THEN Inherit(acq, x.lockErr) ELSE x.lockErr
        task == IF HasLock(x)
                THEN Inherit(lock, AtDeadline(x.taskCtxErr, x.taskDeadline, t))
                ELSE x.taskCtxErr
    IN  [x EXCEPT !.acqErr = acq, !.lockErr = lock, !.taskCtxErr = task]

Urgent(x, t) == x.pc = "holdwait" /\ SelectReady(x, t)

(***************************************************************************)
(* Actions of the locking subsystem.                                       *)
(***************************************************************************)
ExecuteWith(e, configs, nils) ==
    /\ ex[e].pc = "idle"
    /\ \E c \in configs, isNil \in nils :
           ex' = [ex EXCEPT ![e] = Enter(ex[e], c, isNil, now)]
    /\ UNCHANGED <<now, locked, rlVars>>

Execute(e) == ExecuteWith(e, LockConfiguration, BOOLEAN)

ExecuteDuo(e) == ExecuteWith(e, DuoConfiguration, {FALSE})

TryWithContext(e) ==
    /\ ex[e].pc = "acquiring"
    /\ ~ex[e].waitForLock
    /\ \/ /\ ex[e].lname \notin locked
          /\ ex[e].acqErr = "nil"
          /\ locked' = locked \cup {ex[e].lname}
          /\ ex' = [ex EXCEPT ![e] = Acquired(ex[e], now)]
       \/ /\ \E err \in {"ErrNotLocked", "ErrLockerClosed", "other"} \cup CtxErrors :
                 /\ err = "ErrNotLocked" => ex[e].lname \in locked
                 /\ err \in CtxErrors => ex[e].acqErr = err
                 /\ ex' = [ex EXCEPT ![e] =
                               FailAcquire(ex[e], err, TryWithContextErr(err))]
          /\ UNCHANGED locked
    /\ UNCHANGED <<now, rlVars>>

WithContext(e) ==
    /\ ex[e].pc = "acquiring"
    /\ ex[e].waitForLock
    /\ \/ /\ ex[e].lname \notin locked
          /\ ex[e].acqErr = "nil"
          /\ locked' = locked \cup {ex[e].lname}
          /\ ex' = [ex EXCEPT ![e] = Acquired(ex[e], now)]
       \/ /\ \E err \in {"ErrLockerClosed", "other"} \cup CtxErrors :
                 /\ err \in CtxErrors => ex[e].acqErr = err
                 /\ ex' = [ex EXCEPT ![e] =
                               FailAcquire(ex[e], err, WithContextErr(err))]
          /\ UNCHANGED locked
    /\ UNCHANGED <<now, rlVars>>

TaskReturn(e) ==
    /\ ex[e].pc = "running"
    /\ \E r \in {"nil", "taskErr"} :
           /\ ex' = [ex EXCEPT ![e] = OnReturn(ex[e], r, now)]
           /\ locked' = IF ex'[e].pc = "done" THEN locked \ {ex[e].lname}
                        ELSE locked
    /\ UNCHANGED <<now, rlVars>>

TaskPanic(e) ==
    /\ ex[e].pc = "running"
    /\ ex' = [ex EXCEPT ![e] = OnPanic(ex[e], now)]
    /\ locked' = IF ex'[e].released > 0 THEN locked \ {ex[e].lname} ELSE locked
    /\ UNCHANGED <<now, rlVars>>

HoldWaitEnd(e) ==
    /\ ex[e].pc = "holdwait"
    /\ SelectReady(ex[e], now)
    /\ ex' = [ex EXCEPT ![e] = Unwind(ex[e], ex[e].taskRet, now)]
    /\ locked' = locked \ {ex[e].lname}
    /\ UNCHANGED <<now, rlVars>>

CallerDoneWith(e, errs) ==
    /\ ex[e].pc # "done"
    /\ ex[e].callerErr = "nil"
    /\ \E err \in errs :
           ex' = [ex EXCEPT ![e] = Cascade([ex[e] EXCEPT !.callerErr = err], now)]
    /\ UNCHANGED <<now, locked, rlVars>>

CallerDone(e) == CallerDoneWith(e, CtxErrors)

CallerCancel(e) == CallerDoneWith(e, {"Canceled"})

LockLost(e) ==
    /\ HasLock(ex[e])
    /\ ex[e].lockErr = "nil"
    /\ ex' = [ex EXCEPT ![e] = Cascade([ex[e] EXCEPT !.lockErr = "Canceled"], now)]
    /\ UNCHANGED <<now, locked, rlVars>>

TickUntil(max) ==
    /\ now < max
    /\ \A e \in DOMAIN ex : ~Urgent(ex[e], now)
    /\ now' = now + 1
    /\ ex' = [e \in DOMAIN ex |-> Cascade(ex[e], now + 1)]
    /\ UNCHANGED <<locked, rlVars>>

Tick == TickUntil(MaxTime)

TickDuo == TickUntil(MaxDuoTime)

OtherAcquire ==
    /\ \E n \in {ex[e].lname : e \in DOMAIN ex} \ locked :
           locked' = locked \cup {n}
    /\ UNCHANGED <<now, ex, rlVars>>

OtherRelease ==
    /\ \E n \in locked \ {ex[e].lname : e \in {d \in DOMAIN ex : HasLock(ex[d])}} :
           locked' = locked \ {n}
    /\ UNCHANGED <<now, ex, rlVars>>

NextLock ==
    \/ \E e \in DOMAIN ex : Execute(e)
    \/ \E e \in DOMAIN ex : TryWithContext(e)
    \/ \E e \in DOMAIN ex : WithContext(e)
    \/ \E e \in DOMAIN ex : TaskReturn(e)
    \/ \E e \in DOMAIN ex : TaskPanic(e)
    \/ \E e \in DOMAIN ex : HoldWaitEnd(e)
    \/ \E e \in DOMAIN ex : CallerDone(e)
    \/ \E e \in DOMAIN ex : LockLost(e)
    \/ OtherAcquire
    \/ OtherRelease
    \/ Tick

NextDuo ==
    \/ \E e \in DOMAIN ex : ExecuteDuo(e)
    \/ \E e \in DOMAIN ex : TryWithContext(e)
    \/ \E e \in DOMAIN ex : WithContext(e)
    \/ \E e \in DOMAIN ex : TaskReturn(e)
    \/ \E e \in DOMAIN ex : TaskPanic(e)
    \/ \E e \in DOMAIN ex : HoldWaitEnd(e)
    \/ \E e \in DOMAIN ex : CallerCancel(e)
    \/ \E e \in DOMAIN ex : LockLost(e)
    \/ TickDuo

SpecLock == InitLock /\ [][NextLock]_vars

SpecDuo == InitDuo /\ [][NextDuo]_vars

\* Time passes, and a select with a ready case returns.
FairLock ==
    /\ SpecLock
    /\ WF_vars(Tick)
    /\ WF_vars(HoldWaitEnd("e1"))

SpecRL == InitRL /\ [][NextRL]_vars

(***************************************************************************)
(* One limiter of Limit = BurstLimit over two windows of BurstWindow       *)
(* instants: enough calls to exhaust the first window and call again in    *)
(* the second.                                                             *)
(***************************************************************************)
BurstCalls == BurstLimit + 2

InitBurst ==
    InitRLOf({"c1"}, {[limit |-> BurstLimit, window |-> BurstWindow]})

NextBurst ==
    \/ /\ \E c \in DOMAIN cl : AllowIncrUpTo(c, BurstCalls)
       /\ UNCHANGED mwVars
    \/ /\ \E c \in DOMAIN cl : AllowIncrFailsUpTo(c, BurstCalls)
       /\ UNCHANGED mwVars
    \/ /\ \E c \in DOMAIN cl : AllowGet(c)
       /\ UNCHANGED mwVars
    \/ /\ \E c \in DOMAIN cl : AllowGetFails(c)
       /\ UNCHANGED mwVars
    \/ /\ TickRLUntil(2 * BurstWindow - 1)
       /\ UNCHANGED mwVars

SpecBurst == InitBurst /\ [][NextBurst]_vars

(***************************************************************************)
(* Properties of LockingTaskExecutor.Execute.                              *)
(***************************************************************************)
EffectiveName(x) == x.namePrefix \o x.cfg.Name

InTask(x) == x.pc \in {"running", "holdwait"}

TaskReturned(x) == x.taskRet \in {"nil", "taskErr"}

\* C1: two Execute calls through executors that share the locker and resolve
\* to the same effective lock name are never both between the start of the
\* task and the call of the release function.
C1_MutualExclusion ==
    \A a \in DOMAIN ex, b \in DOMAIN ex :
        (a # b /\ InTask(ex[a]) /\ InTask(ex[b]))
            => EffectiveName(ex[a]) # EffectiveName(ex[b])

C1_Witness ==
    \E a \in DOMAIN ex, b \in DOMAIN ex :
        /\ a # b
        /\ ex[a].namePrefix # ex[b].namePrefix
        /\ EffectiveName(ex[a]) = EffectiveName(ex[b])
        /\ ex[a].pc = "done" /\ ex[a].released = 1
        /\ InTask(ex[b])
        /\ ex[b].taskStart >= ex[a].releasedAt

\* C2: an invocation that acquired the lock calls the release function
\* exactly once, when Execute is left and not before, whether the task
\* returned nil, returned an error or panicked (the panic propagates), or
\* the minimum-hold wait was cut short.
C2_ReleasedExactlyOnce ==
    \A e \in DOMAIN ex :
        /\ ex[e].lockerErr = "nil" =>
               /\ ex[e].pc = "done" => ex[e].released = 1
               /\ ex[e].pc # "done" => ex[e].released = 0
               /\ ex[e].taskRet = "panic" => ex[e].result = "panic"
        /\ ex[e].lockerErr # "nil" => ex[e].released = 0

C2_Witness ==
    \E e \in DOMAIN ex :
        /\ ex[e].pc = "done"
        /\ ex[e].result = "panic"
        /\ ex[e].released = 1

\* C3: with LockAtLeastFor > 0, a task that returned (nil or an error) and a
\* caller context and lock context that are live at the release, the release
\* function is not called before taskStart + LockAtLeastFor; until it is
\* called the locker keeps the name, so that no contender acquires it.
C3_MinimumHold ==
    \A e \in DOMAIN ex :
        /\ ( /\ ex[e].pc = "done"
             /\ ex[e].released = 1
             /\ TaskReturned(ex[e])
             /\ ex[e].cfg.LockAtLeastFor > 0
             /\ ex[e].relCallerErr = "nil"
             /\ ex[e].relLockErr = "nil" )
               => ex[e].releasedAt >= MinHoldUntil(ex[e])
        /\ InTask(ex[e]) => ex[e].lname \in locked

C3_Witness ==
    \E e \in DOMAIN ex :
        /\ ex[e].pc = "done"
        /\ ex[e].released = 1
        /\ ex[e].taskRet = "taskErr"
        /\ ex[e].waited
        /\ ex[e].cfg.LockAtLeastFor = 2
        /\ ex[e].relCallerErr = "nil"
        /\ ex[e].relLockErr = "nil"
        /\ ex[e].releasedAt = ex[e].taskStart + 2

\* C4 as stated: with LockAtMostFor > 0, from taskStart + LockAtMostFor on
\* the task's context reports deadline-exceeded while the task still runs,
\* and the lock is not released.
C4_AsStated ==
    \A e \in DOMAIN ex :
        ( /\ ex[e].pc = "running"
          /\ ex[e].cfg.LockAtMostFor > 0
          /\ now >= ex[e].taskStart + ex[e].cfg.LockAtMostFor )
            => /\ ex[e].taskCtxErr = "DeadlineExceeded"
               /\ ex[e].released = 0
               /\ ex[e].lname \in locked

\* C4 (amended): with LockAtMostFor > 0, from taskStart + LockAtMostFor on
\* the task's context is done while the task still runs; it reports
\* deadline-exceeded unless the caller's or the lock's context was cancelled
\* before; the lock is not released while the task runs.
C4_MaximumHold ==
    \A e \in DOMAIN ex :
        ( /\ ex[e].pc = "running"
          /\ ex[e].cfg.LockAtMostFor > 0
          /\ now >= ex[e].taskStart + ex[e].cfg.LockAtMostFor )
            => /\ ex[e].taskCtxErr # "nil"
               /\ ex[e].lockErr # "Canceled" => ex[e].taskCtxErr = "DeadlineExceeded"
               /\ ex[e].released = 0
               /\ ex[e].lname \in locked

C4_Witness ==
    \E e \in DOMAIN ex :
        /\ ex[e].pc = "running"
        /\ ex[e].cfg.LockAtMostFor = 1
        /\ now >= ex[e].taskStart + 2
        /\ ex[e].lockErr = "nil"
        /\ ex[e].taskCtxErr = "DeadlineExceeded"

\* C5: in try-once mode Execute calls the locker at most once; when the
\* locker reports the lock held elsewhere, Execute returns
\* ErrLockNotAcquired, the task is not invoked, no release function is
\* called and no wait is made.
C5_TryOnce ==
    \A e \in DOMAIN ex :
        ~ex[e].waitForLock =>
            /\ ex[e].lockerCalls <= 1
            /\ ex[e].lockerErr = "ErrNotLocked" =>
                   /\ ex[e].pc = "done"
                   /\ ex[e].result = "ErrLockNotAcquired"
                   /\ ex[e].taskRuns = 0
                   /\ ex[e].released = 0
                   /\ ~ex[e].waited

C5_Witness ==
    \E e \in DOMAIN ex :
        /\ ~ex[e].waitForLock
        /\ ex[e].lname \in locked
        /\ ex[e].lockerErr = "ErrNotLocked"
        /\ ex[e].result = "ErrLockNotAcquired"

Invalid(c) ==
    \/ c.Name = <<>>
    \/ c.LockAtMostFor < 0
    \/ c.LockAtLeastFor < 0
    \/ (c.LockAtMostFor > 0 /\ c.LockAtLeastFor > c.LockAtMostFor)

\* C6 as stated: Execute returns ErrInvalidConfiguration, with no locker
\* call and no task run, exactly when the configuration is invalid; every
\* other configuration proceeds to acquisition.
C6_AsStated ==
    \A e \in DOMAIN ex :
        ex[e].pc # "idle" =>
            /\ (ex[e].result = "ErrInvalidConfiguration") <=> Invalid(ex[e].cfg)
            /\ Invalid(ex[e].cfg) => (ex[e].lockerCalls = 0 /\ ex[e].taskRuns = 0)
            /\ ~Invalid(ex[e].cfg) => (ex[e].pc = "acquiring" \/ ex[e].lockerCalls = 1)

\* C6 (amended): for a task that is not nil, Execute returns
\* ErrInvalidConfiguration, with no locker call and no task run, exactly
\* when the configuration is invalid; every other configuration proceeds to
\* acquisition.
C6_ConfigValidation ==
    \A e \in DOMAIN ex :
        (ex[e].pc # "idle" /\ ~ex[e].taskNil) =>
            /\ (ex[e].result = "ErrInvalidConfiguration") <=> Invalid(ex[e].cfg)
            /\ Invalid(ex[e].cfg) => (ex[e].lockerCalls = 0 /\ ex[e].taskRuns = 0)
            /\ ~Invalid(ex[e].cfg) => (ex[e].pc = "acquiring" \/ ex[e].lockerCalls = 1)

C6_Witness ==
    \E e \in DOMAIN ex :
        /\ ~ex[e].taskNil
        /\ ex[e].cfg.Name # <<>>
        /\ ex[e].cfg.LockAtMostFor = 1
        /\ ex[e].cfg.LockAtLeastFor = 2
        /\ ex[e].result = "ErrInvalidConfiguration"
        /\ ex[e].lockerCalls = 0

\* C7: when the locker fails with the context's error (context.Canceled or
\* context.DeadlineExceeded), Execute returns that error value itself, in
\* blocking mode and in try-once mode, and the task is not run.
C7_ContextErrorAsIs ==
    \A e \in DOMAIN ex :
        ex[e].lockerErr \in CtxErrors =>
            /\ ex[e].result = ex[e].lockerErr
            /\ ex[e].taskRuns = 0

\* C8: while Execute waits for the minimum hold with the caller's or the
\* lock's context cancelled, no time passes before the wait ends; the wait
\* ends with the lock released and Execute returning the task's own result.
C8_WaitCutShort ==
    [][\A e \in DOMAIN ex :
           ( /\ ex[e].pc = "holdwait"
             /\ (ex[e].callerErr # "nil" \/ ex[e].lockErr # "nil") )
               => /\ now' = now
                  /\ ex'[e].pc # "holdwait" =>
                         /\ ex'[e].pc = "done"
                         /\ ex'[e].released = 1
                         /\ ex'[e].result = ex[e].taskRet
                         /\ ex'[e].result \in {"nil", "taskErr"}
                         /\ ex[e].lname \notin locked']_vars

C8_Witness ==
    \E e \in DOMAIN ex :
        /\ ex[e].pc = "done"
        /\ ex[e].waited
        /\ ex[e].relCallerErr = "Canceled"
        /\ ex[e].result = "taskErr"
        /\ ex[e].released = 1
        /\ ex[e].releasedAt < MinHoldUntil(ex[e])
(***************************************************************************)
(* Properties of SlidingWindowRateLimiter.Allow.                           *)
(***************************************************************************)
Windows == 0 .. MaxNow

\* C9: when at most Limit calls were made at instants of window i and every
\* call read an empty counter for window i - 1, every call of window i that
\* returned a Result was allowed.
C9_MonotonicWindows ==
    \A i \in Windows :
        (tally.incrs[i] <= policy.limit /\ tally.prevMax[i] = 0)
            => tally.admitted[i] = tally.finished[i]

C9_Witness ==
    \E i \in Windows :
        /\ i >= 1
        /\ policy.limit = 2
        /\ tally.incrs[i] = 2
        /\ tally.finished[i] = 2
        /\ tally.admitted[i] = 2
        /\ tally.prevMax[i] = 0
        /\ tally.firstAt[i] # tally.lastAt[i]

\* The Limit calls of window i were all made at its last instant, the Limit
\* calls of window i + 1 at its first instant, which is the present one, and
\* all of them returned a Result.
TwoBursts(i) ==
    /\ policy.limit >= 1
    /\ now = (i + 1) * policy.window
    /\ tally.firstAt[i] = {now - 1}
    /\ tally.incrs[i] = policy.limit
    /\ tally.finished[i] = policy.limit
    /\ tally.incrs[i + 1] = policy.limit
    /\ tally.finished[i + 1] = policy.limit

\* C10: after Limit calls at the very end of window i and Limit calls at the
\* very start of window i + 1, some call of the second burst was denied, and
\* fewer than 2 * Limit calls were admitted in all.
C10_BoundarySmoothing ==
    \A i \in 0 .. (MaxNow - 1) :
        TwoBursts(i) =>
            /\ tally.admitted[i + 1] < policy.limit
            /\ tally.admitted[i] + tally.admitted[i + 1] < 2 * policy.limit

C10_Witness ==
    \E i \in 0 .. (MaxNow - 1) :
        /\ TwoBursts(i)
        /\ policy.limit = 2
        /\ policy.window >= 2
        /\ tally.admitted[i] = 2
        /\ tally.admitted[i + 1] = 0

(***************************************************************************)
(* Two processes call Allow on the same limiter and key.  A process may    *)
(* be delayed between reading its clock and reaching the store.            *)
(***************************************************************************)
PairPolicy == [limit : 0 .. MaxLimit, window : {PairWindow}]

InitPair == InitRLOf(Clients, PairPolicy)

NextPair ==
    \/ /\ \E c \in DOMAIN cl : \E t \in 0 .. now :
               AllowIncrAt(c, MaxPairCalls, t)
       /\ UNCHANGED mwVars
    \/ /\ \E c \in DOMAIN cl : AllowIncrFailsUpTo(c, MaxPairCalls)
       /\ UNCHANGED mwVars
    \/ /\ \E c \in DOMAIN cl : AllowGet(c)
       /\ UNCHANGED mwVars
    \/ /\ \E c \in DOMAIN cl : AllowGetFails(c)
       /\ UNCHANGED mwVars
    \/ /\ TickRLUntil(MaxPairTime)
       /\ UNCHANGED mwVars

SpecPair == InitPair /\ [][NextPair]_vars

(***************************************************************************)
(* Allow as a function of the clock and of the two counts the store        *)
(* returns: the policy, the clock value and the counts are drawn from      *)
(* sets that hold negative values and the largest int64.                   *)
(***************************************************************************)
MaxInt64 == Word \div 2 - 1

AnyPolicy == [limit : (0 .. MaxLimit) \cup {MaxInt64}, window : 1 .. MaxWindow]

AnyClock == ((0 - MaxNow) .. MaxNow) \cup {MaxInt64}

AnyCount == ((0 - 1) .. (MaxLimit + 1)) \cup {MaxInt64}

InitAny == InitRLOf({"c1"}, AnyPolicy)

AllowAny(c) ==
    /\ cl[c].res = NoResult
    /\ \E t \in AnyClock, currentWindowCount \in AnyCount,
          prevWindowCount \in AnyCount :
           LET nowNs == t
               currentWindowIdx == Quo(nowNs, policy.window)
               r == Decide(ToU64(policy.limit), policy.window, nowNs,
                           currentWindowIdx, currentWindowCount,
                           prevWindowCount)
           IN  /\ now' = t
               /\ cl' = [cl EXCEPT ![c] =
                            [@ EXCEPT !.nowNs = nowNs,
                                      !.idx = currentWindowIdx,
                                      !.cur = currentWindowCount,
                                      !.prev = prevWindowCount, !.res = r]]
               /\ UNCHANGED <<policy, store, tally, lockVars>>

NextAny == (\E c \in DOMAIN cl : AllowAny(c)) /\ UNCHANGED mwVars

SpecAny == InitAny /\ [][NextAny]_vars

(***************************************************************************)
(* Claims about the Result of successive calls.                            *)
(***************************************************************************)
\* A call has incremented the counter of its window and is about to read
\* the previous window's counter; the call before it returned a Result for
\* the same window (calls are made in the order of their instants, so the
\* most recent call is of this window when any finished call is).
SameWindowAsLast(c) ==
    /\ cl[c].pc = "incremented"
    /\ ~cl[c].res.err
    /\ tally.finished[cl[c].idx] >= 1

\* C11: of two successive Allow calls on the key at instants of the same
\* window, with no counter expired in between (both read the same count of
\* the previous window), the later one returns a Remaining that is less
\* than or equal to the earlier one's.
C11_RemainingMonotonic ==
    [][\A c \in DOMAIN cl :
          (/\ SameWindowAsLast(c)
           /\ cl'[c].pc = "idle"
           /\ ~cl'[c].res.err
           /\ cl'[c].prev = cl[c].prev)
              => cl'[c].res.Remaining <= cl[c].res.Remaining]_vars

\* The call that client c has just finished was the k-th increment of a
\* counter created at the first instant of its window, made at that same
\* instant, and it read an empty previous window.
FreshWindowCall(c, k) ==
    /\ cl[c].pc = "idle"
    /\ ~cl[c].res.err
    /\ cl[c].nowNs = cl[c].idx * policy.window
    /\ tally.firstAt[cl[c].idx] = {cl[c].nowNs}
    /\ tally.incrs[cl[c].idx - 1] = 0
    /\ cl[c].prev = 0
    /\ cl[c].cur = k

\* C12: starting from empty counters at a window start, the k-th call at
\* that instant (1 <= k <= Limit) is allowed with Remaining = Limit - k, and
\* the (Limit+1)-th call at that instant is denied with Remaining = 0 and
\* RetryAfter = Window.
C12_ExhaustFreshWindow ==
    \A c \in DOMAIN cl : \A k \in 1 .. (policy.limit + 1) :
        FreshWindowCall(c, k) =>
            IF k <= policy.limit
            THEN cl[c].res.Allowed /\ cl[c].res.Remaining = policy.limit - k
            ELSE /\ ~cl[c].res.Allowed
                 /\ cl[c].res.Remaining = 0
                 /\ cl[c].res.RetryAfter = policy.window

\* All Limit + 1 calls were made at the start of the second window and
\* returned a Result; the last one was the denied one.
C12_Witness ==
    \E c \in DOMAIN cl :
        /\ FreshWindowCall(c, policy.limit + 1)
        /\ policy.limit >= 2
        /\ cl[c].idx = 1
        /\ tally.finished[1] = policy.limit + 1
        /\ tally.admitted[1] = policy.limit
        /\ ~cl[c].res.Allowed

\* Limit calls were admitted and one more was denied, all at instant 0, and
\* client c has just finished the first call of the next window, made at
\* that window's first instant.
RolledOver(c) ==
    /\ cl[c].pc = "idle"
    /\ ~cl[c].res.err
    /\ cl[c].idx = 1
    /\ cl[c].nowNs = policy.window
    /\ tally.incrs[1] = 1
    /\ tally.incrs[0] = policy.limit + 1
    /\ tally.finished[0] = policy.limit + 1
    /\ tally.admitted[0] = policy.limit
    /\ tally.firstAt[0] = {0}
    /\ tally.lastAt[0] = {0}

\* C13: with Limit = 10 and a Window of one second, after 10 admitted calls
\* and an 11th denied call at t = 0, a new call at the first instant of the
\* next window (t = 1.0s) is allowed.
C13_Rollover ==
    \A c \in DOMAIN cl :
        (policy.limit = BurstLimit /\ RolledOver(c)) => cl[c].res.Allowed

\* C14: every Result returned without error, for Limit >= 0 and Window > 0
\* and any clock value and counts, has 0 <= Remaining <= Limit,
\* 0 <= WindowResetIn <= Window, the policy's Limit and Window, and
\* RetryAfter = 0 exactly when Allowed (RetryAfter = WindowResetIn > 0 when
\* denied).
C14_ResultInvariants ==
    \A c \in DOMAIN cl :
        ~cl[c].res.err =>
            LET r == cl[c].res
            IN  /\ 0 <= r.Remaining /\ r.Remaining <= policy.limit
                /\ 0 <= r.WindowResetIn /\ r.WindowResetIn <= policy.window
                /\ r.Limit = policy.limit
                /\ r.Window = policy.window
                /\ (r.RetryAfter = 0) <=> r.Allowed
                /\ ~r.Allowed =>
                       (r.RetryAfter = r.WindowResetIn /\ r.WindowResetIn > 0)

\* A denied call at a clock value before the epoch, with counts and a limit
\* whose products with the window need the high word.
C14_Witness ==
    \E c \in DOMAIN cl :
        /\ ~cl[c].res.err
        /\ ~cl[c].res.Allowed
        /\ cl[c].nowNs < 0
        /\ cl[c].cur = MaxInt64
        /\ cl[c].prev = MaxInt64
        /\ policy.limit = MaxInt64
        /\ policy.window = MaxWindow
        /\ cl[c].res.RetryAfter = MaxWindow

(***************************************************************************)
(* Claims about concurrent callers.                                        *)
(***************************************************************************)
\* The previous window of window i is empty and every one of the calls with
\* an instant in window i has returned a Result.
AllReturned(i) ==
    /\ tally.incrs[i - 1] = 0
    /\ tally.prevMax[i] = 0
    /\ tally.finished[i] = tally.incrs[i]
    /\ tally.calls = tally.incrs[i]

\* C15 as stated: for any interleaving of N calls by any number of processes
\* at instants inside one window, with an empty previous window, exactly
\* min(N, Limit) calls are allowed.
C15_AsStated ==
    \A i \in Windows :
        AllReturned(i) => tally.admitted[i] = Min(tally.incrs[i], policy.limit)

\* C15, amended: the same, when no increment of the window reached the store
\* after the window's counter had expired.
C15_ConcurrentAdmission ==
    \A i \in Windows :
        (AllReturned(i) /\ ~tally.recreated[i])
            => tally.admitted[i] = Min(tally.incrs[i], policy.limit)

\* Both processes have a call in the same window, more calls than the limit
\* were made, and the process that read its clock first reached the store
\* last and was denied.
C15_Witness ==
    \E i \in Windows :
        /\ AllReturned(i)
        /\ ~tally.recreated[i]
        /\ policy.limit = 1
        /\ tally.incrs[i] = 2
        /\ tally.admitted[i] = 1
        /\ cl["c1"].idx = i /\ cl["c2"].idx = i
        /\ cl["c1"].cur = 2 /\ cl["c1"].res.Allowed = FALSE
        /\ cl["c2"].cur = 1 /\ cl["c2"].res.Allowed
        /\ cl["c1"].nowNs < cl["c2"].nowNs

(***************************************************************************)
(* Claims about the counters' expiry.                                      *)
(***************************************************************************)
\* C16: the counter of window i receives its expiry, 2 * Window, only on
\* the increment that creates it; every Allow call made during window i+1
\* (its read included) reads the full number of increments made in window
\* i; and the counter has expired by the end of window i+2.
C16_PreviousWindowSurvival ==
    [][/\ \A k \in Idx :
              store'[k].n > store[k].n =>
                  store'[k].exp =
                      IF store[k].n = 0 THEN {now + 2 * policy.window}
                      ELSE store[k].exp
       /\ \A c \in DOMAIN cl :
              (/\ cl[c].pc = "incremented"
               /\ cl'[c].pc = "idle"
               /\ ~cl'[c].res.err
               /\ Quo(now, policy.window) = cl[c].idx)
                  => cl'[c].prev = tally.incrs[cl[c].idx - 1]
       /\ \A i \in Windows :
              now' >= (i + 3) * policy.window => store'[i].n = 0]_vars

(***************************************************************************)
(* modules/middleware/ratelimit: the configuration, the compiled           *)
(* RuntimePolicy and the resolution of a request's policy.                 *)
(***************************************************************************)
Patterns == {"", "/a", "/b"}
RawMethods == {"", "get", "GET", "POST"}
KeyStrategyIds == {"", "remote_ip", "nil_func", "unknown"}

\* strings.ToUpper on the methods of the model.
ToUpper(m) ==
    CASE m = "get" -> "GET"
      [] m = "post" -> "POST"
      [] OTHER -> m

normalizeMethod_AsIs(m) == m

normalizeMethod(m) == ToUpper(m)

\* The keyStrategies map given to ParsePolicy; a registered strategy may be
\* a nil KeyFunc.
keyStrategies ==
    [k \in {"remote_ip", "nil_func"} |->
        IF k = "remote_ip" THEN "RemoteIpKeyFunc" ELSE "nil"]

\* The zero Policy (nil Limiter, nil KeyFn).
NoLimiter == [limit |-> 0, window |-> 0]
NoPolicy == [Limiter |-> NoLimiter, KeyFn |-> "nil"]

\* A Policy built from an EndpointRule by the LimiterFactory.
NewPolicy(rule) ==
    [Limiter |-> [limit |-> rule.Limit, window |-> rule.Window],
     KeyFn |-> keyStrategies[rule.KeyStrategy]]

Put(f, k, v) == [x \in DOMAIN f \cup {k} |-> IF x = k THEN v ELSE f[x]]

NoMap == [x \in {} |-> NoPolicy]

(***************************************************************************)
(* findPolicy: explicit rule, then default by method, then catch-all.      *)
(***************************************************************************)
Found(px, src) == [px |-> px, ok |-> TRUE, src |-> src]

NotFound == [px |-> NoPolicy, ok |-> FALSE, src |-> ""]

findPolicy_CatchAllFirst(p, routeInfo) ==
    LET m == normalizeMethod(routeInfo.Method)
    IN  IF /\ routeInfo.ID \in DOMAIN p.policyMap
           /\ m \in DOMAIN p.policyMap[routeInfo.ID]
        THEN Found(p.policyMap[routeInfo.ID][m], "explicit")
        ELSE IF p.defaultPolicy # {}
        THEN Found(CHOOSE px \in p.defaultPolicy : TRUE, "default")
        ELSE IF routeInfo.Method # "" /\ m \in DOMAIN p.defaultPolicyByMethod
        THEN Found(p.defaultPolicyByMethod[m], "default_method")
        ELSE NotFound

findPolicy(p, routeInfo) ==
    LET m == normalizeMethod(routeInfo.Method)
    IN  IF /\ routeInfo.ID \in DOMAIN p.policyMap
           /\ m \in DOMAIN p.policyMap[routeInfo.ID]
        THEN Found(p.policyMap[routeInfo.ID][m], "explicit")
        ELSE IF routeInfo.Method # "" /\ m \in DOMAIN p.defaultPolicyByMethod
        THEN Found(p.defaultPolicyByMethod[m], "default_method")
        ELSE IF p.defaultPolicy # {}
        THEN Found(CHOOSE px \in p.defaultPolicy : TRUE, "default")
        ELSE NotFound

(***************************************************************************)
(* ParsePolicy: the default rule first, then every rule of every route in  *)
(* order; the first error ends the compilation with no RuntimePolicy.      *)
(***************************************************************************)
NewRuntimePolicy(cfg) ==
    [policyMap |-> [x \in {} |-> NoMap],
     defaultPolicyByMethod |-> NoMap,
     defaultPolicy |-> {},
     AllowIfNoIdentifier |-> cfg.AllowIfNoIdentifier,
     AllowIfNoMatch |-> cfg.AllowIfNoMatch]

Compiled(p) == [isNil |-> FALSE, rp |-> p, err |-> "nil"]

Failed(cfg, msg) == [isNil |-> TRUE, rp |-> NewRuntimePolicy(cfg), err |-> msg]

DefaultOf_AnyWindow(cfg, p) ==
    LET d == cfg.DefaultPolicy
    IN  IF d.KeyStrategy # ""
        THEN IF d.KeyStrategy \notin DOMAIN keyStrategies
             THEN Failed(cfg, "no such default key strategy")
             ELSE IF d.Method # ""
             THEN Compiled([p EXCEPT !.defaultPolicyByMethod =
                               Put(NoMap, normalizeMethod(d.Method),
                                   NewPolicy(d))])
             ELSE Compiled([p EXCEPT !.defaultPolicy = {NewPolicy(d)}])
        ELSE Compiled(p)

DefaultOf(cfg, p) ==
    LET d == cfg.DefaultPolicy
    IN  IF d.Window > 0 /\ d.KeyStrategy # ""
        THEN IF d.KeyStrategy \notin DOMAIN keyStrategies
             THEN Failed(cfg, "no such default key strategy")
             ELSE IF d.Method # ""
             THEN Compiled([p EXCEPT !.defaultPolicyByMethod =
                               Put(NoMap, normalizeMethod(d.Method),
                                   NewPolicy(d))])
             ELSE Compiled([p EXCEPT !.defaultPolicy = {NewPolicy(d)}])
        ELSE Compiled(p)

RECURSIVE AddRules(_, _, _, _)
AddRules(cfg, p, pat, rules) ==
    IF rules = <<>> THEN Compiled(p)
    ELSE LET rule == Head(rules)
             m == normalizeMethod(rule.Method)
         IN  IF m \in DOMAIN p.policyMap[pat]
             THEN Failed(cfg, "duplicate method config on same pattern")
             ELSE IF rule.KeyStrategy \notin DOMAIN keyStrategies
             THEN Failed(cfg, "no such key strategy")
             ELSE AddRules(cfg,
                           [p EXCEPT !.policyMap[pat] =
                               Put(@, m, NewPolicy(rule))],
                           pat, Tail(rules))

RECURSIVE AddRoutes(_, _, _)
AddRoutes(cfg, p, routes) ==
    IF routes = <<>> THEN Compiled(p)
    ELSE LET r == Head(routes)
             pat == r.Pattern
             p1 == IF pat \in DOMAIN p.policyMap THEN p
                   ELSE [p EXCEPT !.policyMap = Put(@, pat, NoMap)]
             done == AddRules(cfg, p1, pat, r.EndpointRules)
         IN  IF done.isNil THEN done
             ELSE AddRoutes(cfg, done.rp, Tail(routes))

ParsePolicy(cfg) ==
    LET d == DefaultOf(cfg, NewRuntimePolicy(cfg))
    IN  IF d.isNil THEN d ELSE AddRoutes(cfg, d.rp, cfg.Routes)

(***************************************************************************)
(* The configurations the compilation is checked on: up to two routes of   *)
(* up to two rules each, over two patterns.                                *)
(***************************************************************************)
Rules ==
    [Method : {"get", "GET", "POST"}, Limit : {1, 2}, Window : {1},
     KeyStrategy : {"remote_ip"}]
        \cup {[Method |-> "GET", Limit |-> 1, Window |-> 1,
                KeyStrategy |-> "unknown"]}

DefaultRules ==
    {[Method |-> "", Limit |-> 0, Window |-> 0, KeyStrategy |-> ""],
     [Method |-> "get", Limit |-> 0, Window |-> 1, KeyStrategy |-> "remote_ip"],
     [Method |-> "", Limit |-> 0, Window |-> 1, KeyStrategy |-> "remote_ip"],
     [Method |-> "", Limit |-> 0, Window |-> 1, KeyStrategy |-> "unknown"],
     [Method |-> "GET", Limit |-> 0, Window |-> 0, KeyStrategy |-> "remote_ip"],
     [Method |-> "GET", Limit |-> 0, Window |-> 1, KeyStrategy |-> ""],
     [Method |-> "", Limit |-> 0, Window |-> 0 - 1,
      KeyStrategy |-> "remote_ip"]}

UpToTwo(S) == {<<>>} \cup {<<x>> : x \in S} \cup {<<x, y>> : x, y \in S}

Routes == [Pattern : {"/a", "/b"}, EndpointRules : UpToTwo(Rules)]

RestHTTPConfig ==
    [Routes : UpToTwo(Routes), DefaultPolicy : DefaultRules,
     AllowIfNoMatch : {FALSE}, AllowIfNoIdentifier : {FALSE}]

InitParse ==
    /\ now = 0
    /\ IdlePool
    /\ IdleLock
    /\ policy = [limit |-> 0, window |-> 1]
    /\ store = [k \in Idx |-> [n |-> 0, exp |-> {}]]
    /\ cl = [c \in {} |-> NoResult]
    /\ tally = [calls |-> 0]
    /\ rtp \in [parsed : {FALSE}, cfg : RestHTTPConfig]
    /\ req = [pc |-> "none"]

Parse ==
    /\ ~rtp.parsed
    /\ LET r == ParsePolicy(rtp.cfg)
       IN  rtp' = [parsed |-> TRUE, cfg |-> rtp.cfg, isNil |-> r.isNil,
                   rp |-> r.rp, err |-> r.err]
    /\ UNCHANGED <<now, policy, store, cl, tally, req, lockVars>>

NextParse == Parse

SpecParse == InitParse /\ [][NextParse]_vars

\* The positions <<route, rule>> of the rules of a configuration, and the
\* (pattern, upper-cased method) a position configures.
RulePositions(cfg) ==
    UNION {{<<i, j>> : j \in 1 .. Len(cfg.Routes[i].EndpointRules)} :
              i \in 1 .. Len(cfg.Routes)}

RuleAt(cfg, pos) == cfg.Routes[pos[1]].EndpointRules[pos[2]]

TargetOf(cfg, pos) ==
    <<cfg.Routes[pos[1]].Pattern, ToUpper(RuleAt(cfg, pos).Method)>>

HasDuplicate(cfg) ==
    \E a, b \in RulePositions(cfg) :
        a # b /\ TargetOf(cfg, a) = TargetOf(cfg, b)

\* C18: ParsePolicy returns an error and no RuntimePolicy whenever two rules
\* of the configuration have the same pattern and the same upper-cased
\* method, in one route entry or in two; a RuntimePolicy that was returned
\* holds, for every (pattern, upper-cased method), the policy of exactly one
\* rule, and holds a policy for every rule.
C18_RejectsDuplicates ==
    rtp.parsed =>
        /\ HasDuplicate(rtp.cfg) => (rtp.isNil /\ rtp.err # "nil")
        /\ ~rtp.isNil =>
               /\ rtp.err = "nil"
               /\ \A pat \in DOMAIN rtp.rp.policyMap :
                      \A m \in DOMAIN rtp.rp.policyMap[pat] :
                          \E pos \in RulePositions(rtp.cfg) :
                              /\ TargetOf(rtp.cfg, pos) = <<pat, m>>
                              /\ rtp.rp.policyMap[pat][m] =
                                     NewPolicy(RuleAt(rtp.cfg, pos))
                              /\ \A other \in RulePositions(rtp.cfg) :
                                     TargetOf(rtp.cfg, other) = <<pat, m>>
                                         => other = pos
               /\ \A pos \in RulePositions(rtp.cfg) :
                      LET t == TargetOf(rtp.cfg, pos)
                      IN  /\ t[1] \in DOMAIN rtp.rp.policyMap
                          /\ t[2] \in DOMAIN rtp.rp.policyMap[t[1]]

\* Two route entries of the same pattern configure "get" and "GET": the
\* compilation failed on the duplicate.
C18_Witness ==
    /\ rtp.parsed
    /\ rtp.isNil
    /\ rtp.err = "duplicate method config on same pattern"
    /\ Len(rtp.cfg.Routes) = 2
    /\ rtp.cfg.Routes[1].Pattern = rtp.cfg.Routes[2].Pattern
    /\ Len(rtp.cfg.Routes[1].EndpointRules) = 1
    /\ rtp.cfg.Routes[1].EndpointRules[1].Method = "get"
    /\ Len(rtp.cfg.Routes[2].EndpointRules) = 2
    /\ rtp.cfg.Routes[2].EndpointRules[2].Method = "GET"

(***************************************************************************)
(* findPolicy as a function of the RuntimePolicy and the RouteInfo: the    *)
(* three tiers are drawn independently (ParsePolicy itself fills at most   *)
(* one of the two default tiers).                                          *)
(***************************************************************************)
TierPolicy(l) ==
    [Limiter |-> [limit |-> l, window |-> 1], KeyFn |-> "RemoteIpKeyFunc"]

MethodMaps(l) ==
    {[m \in S |-> TierPolicy(l)] : S \in SUBSET {"GET", "POST"}}

RuntimePolicy ==
    [policyMap : UNION {[S -> MethodMaps(1)] : S \in SUBSET {"/a", "/b"}},
     defaultPolicyByMethod : MethodMaps(2),
     defaultPolicy : {{}, {TierPolicy(3)}},
     AllowIfNoIdentifier : {FALSE},
     AllowIfNoMatch : {FALSE}]

RouteInfo == [ID : Patterns, Method : RawMethods]

InitFind ==
    /\ now = 0
    /\ IdlePool
    /\ IdleLock
    /\ policy = [limit |-> 0, window |-> 1]
    /\ store = [k \in Idx |-> [n |-> 0, exp |-> {}]]
    /\ cl = [c \in {} |-> NoResult]
    /\ tally = [calls |-> 0]
    /\ rtp \in [parsed : {TRUE}, isNil : {FALSE}, err : {"nil"},
                 rp : RuntimePolicy]
    /\ req = [pc |-> "none"]

Find ==
    /\ req.pc = "none"
    /\ \E routeInfo \in RouteInfo :
           req' = [pc |-> "found", routeInfo |-> routeInfo,
                   found |-> findPolicy(rtp.rp, routeInfo)]
    /\ UNCHANGED <<now, policy, store, cl, tally, rtp, lockVars>>

NextFind == Find

SpecFind == InitFind /\ [][NextFind]_vars

\* The RuntimePolicy has an explicit rule for (pat, m).
Explicit(p, pat, m) ==
    pat \in DOMAIN p.policyMap /\ m \in DOMAIN p.policyMap[pat]

\* An explicit rule for (pat, GET), a default-by-method rule for GET and no
\* other, and a catch-all default.
ThreeTiers(p, pat) ==
    /\ Explicit(p, pat, "GET")
    /\ DOMAIN p.defaultPolicyByMethod = {"GET"}
    /\ p.defaultPolicy # {}

\* C17: with an explicit rule for (pattern, GET), a default-by-method rule
\* for GET and a catch-all default, (pattern, GET) resolves to the explicit
\* rule, (otherPattern, GET) to the default-by-method rule and
\* (otherPattern, POST) to the catch-all; when no tier matches, resolution
\* reports that no policy was found.
C17_PolicyPrecedence ==
    req.pc = "found" =>
        LET p == rtp.rp
            r == req.routeInfo
            m == ToUpper(r.Method)
        IN  /\ \A pat \in {"/a", "/b"} :
                   ThreeTiers(p, pat) =>
                       /\ (r.ID = pat /\ m = "GET") =>
                              req.found =
                                  Found(p.policyMap[pat]["GET"], "explicit")
                       /\ (r.ID # pat /\ m = "GET"
                              /\ ~Explicit(p, r.ID, "GET")) =>
                              req.found =
                                  Found(p.defaultPolicyByMethod["GET"],
                                        "default_method")
                       /\ (r.ID # pat /\ m = "POST"
                              /\ ~Explicit(p, r.ID, "POST")) =>
                              req.found = Found(TierPolicy(3), "default")
            /\ (/\ ~Explicit(p, r.ID, m)
                /\ (r.Method = "" \/ m \notin DOMAIN p.defaultPolicyByMethod)
                /\ p.defaultPolicy = {})
                   => (~req.found.ok /\ req.found = NotFound)

\* With the three tiers configured, a POST to the other pattern resolved to
\* the catch-all.
C17_Witness ==
    /\ req.pc = "found"
    /\ ThreeTiers(rtp.rp, "/a")
    /\ req.routeInfo = [ID |-> "/b", Method |-> "POST"]
    /\ req.found.ok
    /\ req.found.src = "default"
    /\ req.found.px = TierPolicy(3)

(***************************************************************************)
(* NewRateLimitMiddleware: the handler serves one request at a time.  req  *)
(* is the request in hand and the response under construction:             *)
(*   status     the status the response was committed with (0: none yet)   *)
(*   next       how many times next.ServeHTTP was invoked                  *)
(*   allow      how many times Limiter.Allow was invoked                   *)
(*   wrapped    the rateLimitHeaderWriter was put around the writer        *)
(*   hdr        who set the rate-limit headers of the response             *)
(* The next handler is external: it may set the headers itself, write      *)
(* through the writer it was given, or return without writing (the server  *)
(* then commits 200 on the original writer).                               *)
(***************************************************************************)
\* The X-Forwarded-For values of the model ("" when the header is absent)
\* and strings.Split(h, ",") on them.
XForwardedFor == {"", "ip", "a,ip", "ip,"}

Split(h) ==
    CASE h = "" -> <<"">>
      [] h = "ip" -> <<"ip">>
      [] h = "a,ip" -> <<"a", "ip">>
      [] h = "ip," -> <<"ip", "">>

RemoteIpKeyFunc(h, RemoteAddr) ==
    LET ips == Split(h)
    IN  IF Len(ips) = 0 THEN RemoteAddr ELSE ips[Len(ips)]

Keys == {RemoteIpKeyFunc(h, "addr") : h \in XForwardedFor}

NewRequest(key, served, routeInfo) ==
    [pc |-> "serving", key |-> key, served |-> served,
     routeInfo |-> routeInfo, found |-> NotFound, status |-> 0, next |-> 0,
     allow |-> 0, result |-> NoResult, wrapped |-> FALSE, ensured |-> FALSE,
     hdr |-> "none", committed |-> FALSE]

\* rateLimitHeaderWriter.ensure
ensure(q) ==
    IF q.wrapped /\ ~q.ensured
    THEN [q EXCEPT !.ensured = TRUE, !.hdr = "limiter"]
    ELSE q

\* problem.Write(w, p): WriteHeader(p.Status) on the writer in hand.
Write(q, status) ==
    [ensure(q) EXCEPT !.pc = "done", !.status = status, !.committed = TRUE]

CallNext(q) == [q EXCEPT !.pc = "next", !.next = @ + 1]

NoMatch_FailOpen(p, q) == CallNext(q)

\* No policy was found for the request.
NoMatch(p, q) ==
    IF q.routeInfo.ID = ""
    THEN IF p.AllowIfNoMatch THEN CallNext(q) ELSE Write(q, 405)
    ELSE IF p.AllowIfNoMatch THEN CallNext(q) ELSE Write(q, 429)

BeforeAllow_KeyUnchecked(p, q0) ==
    LET f == findPolicy(p, q0.routeInfo)
        q == [q0 EXCEPT !.found = f]
    IN  IF q0.routeInfo.Method = "" THEN Write(q0, 405)
        ELSE IF ~f.ok THEN NoMatch(p, q)
        ELSE IF f.px.KeyFn = "nil"
        THEN IF ~p.AllowIfNoIdentifier THEN Write(q, 429) ELSE CallNext(q)
        ELSE [q EXCEPT !.pc = "allow", !.allow = @ + 1]

\* The handler up to the call of Limiter.Allow.
BeforeAllow(p, q0) ==
    LET f == findPolicy(p, q0.routeInfo)
        q == [q0 EXCEPT !.found = f]
    IN  IF q0.routeInfo.Method = "" THEN Write(q0, 405)
        ELSE IF ~f.ok THEN NoMatch(p, q)
        ELSE IF f.px.KeyFn = "nil"
        THEN IF ~p.AllowIfNoIdentifier THEN Write(q, 429) ELSE CallNext(q)
        ELSE IF q.key = "" /\ ~p.AllowIfNoIdentifier THEN Write(q, 429)
        ELSE [q EXCEPT !.pc = "allow", !.allow = @ + 1]

AfterAllow_DenyOnError(q, result) ==
    LET w == [q EXCEPT !.result = result, !.wrapped = TRUE]
    IN  IF result.err \/ ~result.Allowed THEN Write(w, 429) ELSE CallNext(w)

AfterAllow_NextOnDeny(q, result) ==
    IF result.err THEN Write([q EXCEPT !.result = result], 500)
    ELSE CallNext([q EXCEPT !.result = result, !.wrapped = TRUE])

\* The handler from the return of Limiter.Allow.
AfterAllow(q, result) ==
    IF result.err THEN Write([q EXCEPT !.result = result], 500)
    ELSE LET w == [q EXCEPT !.result = result, !.wrapped = TRUE]
         IN  IF ~result.Allowed THEN Write(w, 429) ELSE CallNext(w)

(***************************************************************************)
(* The served configurations: one route with a GET rule (limit 1) and a    *)
(* POST rule whose key strategy is a nil KeyFunc, and a default rule that  *)
(* is absent, by method or catch-all (limit 0).                            *)
(***************************************************************************)
ServedRoutes ==
    <<[Pattern |-> "/a",
       EndpointRules |->
           <<[Method |-> "GET", Limit |-> 1, Window |-> 2,
              KeyStrategy |-> "remote_ip"],
             [Method |-> "post", Limit |-> 1, Window |-> 1,
              KeyStrategy |-> "nil_func"]>>]>>

ServedDefaults ==
    {[Method |-> "", Limit |-> 0, Window |-> 0, KeyStrategy |-> ""],
     [Method |-> "get", Limit |-> 0, Window |-> 1, KeyStrategy |-> "remote_ip"],
     [Method |-> "", Limit |-> 0, Window |-> 1, KeyStrategy |-> "remote_ip"]}

ServedConfig ==
    [Routes : {ServedRoutes}, DefaultPolicy : ServedDefaults,
     AllowIfNoMatch : BOOLEAN, AllowIfNoIdentifier : BOOLEAN]

InitMw ==
    /\ now = 0
    /\ IdlePool
    /\ IdleLock
    /\ policy = [limit |-> 0, window |-> 1]
    /\ store = [k \in Idx |-> [n |-> 0, exp |-> {}]]
    /\ cl = [c \in {"c1"} |->
                [pc |-> "idle", nowNs |-> 0, idx |-> 0, cur |-> 0, prev |-> 0,
                 res |-> NoResult]]
    /\ tally = [calls |-> 0,
                incrs |-> [k \in Idx |-> 0],
                finished |-> [k \in Idx |-> 0],
                admitted |-> [k \in Idx |-> 0],
                prevMax |-> [k \in Idx |-> 0],
                recreated |-> [k \in Idx |-> FALSE],
                firstAt |-> [k \in Idx |-> {}],
                lastAt |-> [k \in Idx |-> {}]]
    /\ \E cfg \in ServedConfig :
           LET r == ParsePolicy(cfg)
           IN  rtp = [parsed |-> TRUE, cfg |-> cfg, isNil |-> r.isNil,
                      rp |-> r.rp, err |-> r.err]
    /\ \E key \in Keys : req = [pc |-> "none", key |-> key, served |-> 0]

\* The handler, from the request's arrival to its response, to the call of
\* the next handler or to the call of Limiter.Allow on the policy's limiter.
ServeHTTP ==
    /\ ~rtp.isNil
    /\ req.pc \in {"none", "done"}
    /\ req.served < MaxServed
    /\ \E routeInfo \in RouteInfo :
           LET q == BeforeAllow(rtp.rp,
                                NewRequest(req.key, req.served + 1, routeInfo))
           IN  /\ req' = q
               /\ policy' = IF q.pc = "allow" THEN q.found.px.Limiter
                             ELSE policy
    /\ UNCHANGED <<now, store, cl, tally, rtp, lockVars>>

LimiterIncr ==
    /\ req.pc = "allow"
    /\ AllowIncrUpTo("c1", MaxServed)
    /\ UNCHANGED mwVars

LimiterIncrFails ==
    /\ req.pc = "allow"
    /\ AllowIncrFailsUpTo("c1", MaxServed)
    /\ req' = AfterAllow(req, NoResult)
    /\ UNCHANGED rtp

LimiterGet ==
    /\ req.pc = "allow"
    /\ AllowGet("c1")
    /\ req' = AfterAllow(req, cl'["c1"].res)
    /\ UNCHANGED rtp

LimiterGetFails ==
    /\ req.pc = "allow"
    /\ AllowGetFails("c1")
    /\ req' = AfterAllow(req, NoResult)
    /\ UNCHANGED rtp

\* The next handler sets the rate-limit headers itself, before the commit.
NextSetsHeaders ==
    /\ req.pc = "next"
    /\ ~req.committed
    /\ req.hdr # "downstream"
    /\ req' = [req EXCEPT !.hdr = "downstream"]
    /\ UNCHANGED <<now, policy, store, cl, tally, rtp, lockVars>>

\* The next handler's first WriteHeader, Write or Flush on its writer.
NextWrites ==
    /\ req.pc = "next"
    /\ ~req.committed
    /\ req' = [ensure(req) EXCEPT !.committed = TRUE, !.status = 200]
    /\ UNCHANGED <<now, policy, store, cl, tally, rtp, lockVars>>

\* The next handler returns; a response it never wrote is committed by the
\* server with status 200 on the original writer.
NextReturns ==
    /\ req.pc = "next"
    /\ req' = [req EXCEPT !.pc = "done", !.committed = TRUE,
                          !.status = IF req.committed THEN @ ELSE 200]
    /\ UNCHANGED <<now, policy, store, cl, tally, rtp, lockVars>>

NextMw ==
    \/ ServeHTTP
    \/ LimiterIncr
    \/ LimiterIncrFails
    \/ LimiterGet
    \/ LimiterGetFails
    \/ NextSetsHeaders
    \/ NextWrites
    \/ NextReturns
    \/ TickRLUntil(MaxMwTime) /\ UNCHANGED mwVars

SpecMw == InitMw /\ [][NextMw]_vars

\* The request in hand has been answered or handed to the next handler.
Handled == req.pc \in {"next", "done"}

\* C19 as stated: a request that has a method and for which no policy is
\* found goes to the next handler, with no limiter invoked, if
\* AllowIfNoMatch is true, and is otherwise answered 429 without the next
\* handler.
C19_AsStated ==
    (Handled /\ req.routeInfo.Method # "" /\ ~req.found.ok) =>
        IF rtp.rp.AllowIfNoMatch
        THEN req.next = 1 /\ req.allow = 0
        ELSE req.status = 429 /\ req.next = 0

\* C19, amended: the same, but the rejection is 405 when the request has
\* no route ID and 429 when it has one.
C19_NoPolicyMatched ==
    (Handled /\ req.routeInfo.Method # "" /\ ~req.found.ok) =>
        IF rtp.rp.AllowIfNoMatch
        THEN req.next = 1 /\ req.allow = 0
        ELSE /\ req.status = IF req.routeInfo.ID = "" THEN 405 ELSE 429
             /\ req.next = 0
             /\ req.allow = 0

\* A POST to a pattern with no rule, no default configured, fail-closed:
\* answered 429.
C19_Witness ==
    /\ req.pc = "done"
    /\ req.routeInfo = [ID |-> "/b", Method |-> "POST"]
    /\ ~req.found.ok
    /\ ~rtp.rp.AllowIfNoMatch
    /\ req.status = 429
    /\ req.next = 0

\* C20: when Limiter.Allow returns an error the response is 500, never 429,
\* the next handler is not called and the response carries no rate-limit
\* headers.
C20_StoreFailure ==
    (Handled /\ req.allow = 1 /\ req.result.err) =>
        /\ req.pc = "done"
        /\ req.status = 500
        /\ req.next = 0
        /\ ~req.wrapped
        /\ req.hdr = "none"

\* The increment succeeded and the read of the previous window failed.
C20_Witness ==
    /\ req.pc = "done"
    /\ req.allow = 1
    /\ req.result.err
    /\ req.status = 500
    /\ cl["c1"].cur = 1
    /\ tally.incrs[cl["c1"].idx] = 1
    /\ tally.finished[cl["c1"].idx] = 0

\* The request in hand obtained a Result from Limiter.Allow.
Decided == Handled /\ req.allow = 1 /\ ~req.result.err

\* C21: for a request that reached a limiter decision, the next handler is
\* invoked exactly when Result.Allowed is true; when Allowed is false the
\* response is 429 and the next handler is never invoked.
C21_DenyShortCircuits ==
    Decided =>
        /\ (req.next = 1) <=> req.result.Allowed
        /\ req.next <= 1
        /\ ~req.result.Allowed =>
               (req.pc = "done" /\ req.status = 429 /\ req.next = 0)

\* The second GET on the route with limit 1 is denied: answered 429.
C21_Witness ==
    /\ Decided
    /\ req.served = 2
    /\ req.found.src = "explicit"
    /\ cl["c1"].cur = 2
    /\ ~req.result.Allowed
    /\ req.status = 429
    /\ req.next = 0

\* C22: after a successful Allow the rate-limit headers are not set while
\* the response is uncommitted, unless a downstream handler set its own
\* values; once the response of such a request is committed, by the first
\* WriteHeader, Write or Flush or otherwise, it carries the headers with the
\* values of the request's Result, whatever was set downstream before.
C22_LazyHeaders ==
    (req.pc \in {"next", "done"} /\ req.wrapped) =>
        /\ ~req.committed => (~req.ensured /\ req.hdr # "limiter")
        /\ req.committed => (req.ensured /\ req.hdr = "limiter")

(***************************************************************************)
(* worker.BlockingPool: size goroutines receive from the jobs channel      *)
(* until it is closed or the context is done.  The caller's side (sends,   *)
(* close, cancellation) and the outcome of a worker call are the           *)
(* environment's choice.  Jobs are numbered in the order they are sent.    *)
(***************************************************************************)
Sizes == (0 - 1) .. MaxSize

Jobs == 1 .. MaxJobs

\* Lines 59-61.
PoolSize(size) == IF size <= 0 THEN 1 ELSE size

InitPool ==
    /\ now = 0
    /\ IdleLock
    /\ IdleRL
    /\ \E size \in Sizes, cap \in 0 .. MaxCap :
           pool = [pc |-> "called", size |-> size, cap |-> cap, buf |-> <<>>,
                   sent |-> 0, closed |-> FALSE, cancelled |-> FALSE,
                   w |-> <<>>, handed |-> [j \in Jobs |-> 0]]

\* Lines 59-80: the goroutines are started; the caller goes on to wg.Wait.
Spawn ==
    /\ pool.pc = "called"
    /\ pool' = [pool EXCEPT
                   !.pc = "waiting",
                   !.w = [i \in 1 .. PoolSize(pool.size) |->
                             [pc |-> "select", job |-> 0]]]
    /\ UNCHANGED <<now, locked, ex, policy, store, cl, tally, mwVars>>

\* The caller's side of the channel: a send into a free buffer slot.
Send ==
    /\ pool.pc # "none"
    /\ ~pool.closed
    /\ pool.sent < MaxJobs
    /\ Len(pool.buf) < pool.cap
    /\ pool' = [pool EXCEPT !.buf = Append(@, pool.sent + 1),
                            !.sent = @ + 1]
    /\ UNCHANGED <<now, locked, ex, policy, store, cl, tally, mwVars>>

Close ==
    /\ pool.pc # "none"
    /\ ~pool.closed
    /\ pool' = [pool EXCEPT !.closed = TRUE]
    /\ UNCHANGED <<now, locked, ex, policy, store, cl, tally, mwVars>>

Cancel ==
    /\ pool.pc # "none"
    /\ ~pool.cancelled
    /\ pool' = [pool EXCEPT !.cancelled = TRUE]
    /\ UNCHANGED <<now, locked, ex, policy, store, cl, tally, mwVars>>

Selecting(i) ==
    /\ pool.pc \in {"waiting", "returned"}
    /\ i \in DOMAIN pool.w
    /\ pool.w[i].pc = "select"

Hand(p, i, job) ==
    [p EXCEPT !.w[i] = [pc |-> "working", job |-> job],
              !.handed[job] = @ + 1]

\* Lines 72-76: a buffered job is received and the worker is called.
Receive(i) ==
    /\ Selecting(i)
    /\ pool.buf # <<>>
    /\ pool' = Hand([pool EXCEPT !.buf = Tail(@)], i, Head(pool.buf))
    /\ UNCHANGED <<now, locked, ex, policy, store, cl, tally, mwVars>>

\* Lines 72-76: the caller's send meets this goroutine's receive.
Rendezvous(i) ==
    /\ Selecting(i)
    /\ pool.buf = <<>>
    /\ ~pool.closed
    /\ pool.sent < MaxJobs
    /\ pool' = Hand([pool EXCEPT !.sent = @ + 1], i, pool.sent + 1)
    /\ UNCHANGED <<now, locked, ex, policy, store, cl, tally, mwVars>>

\* Lines 72-75: the channel is closed and drained.
SeeClosed(i) ==
    /\ Selecting(i)
    /\ pool.buf = <<>>
    /\ pool.closed
    /\ pool' = [pool EXCEPT !.w[i].pc = "exited"]
    /\ UNCHANGED <<now, locked, ex, policy, store, cl, tally, mwVars>>

\* Lines 70-71.
SeeDone(i) ==
    /\ Selecting(i)
    /\ pool.cancelled
    /\ pool' = [pool EXCEPT !.w[i].pc = "exited"]
    /\ UNCHANGED <<now, locked, ex, policy, store, cl, tally, mwVars>>

Working(i) ==
    /\ pool.pc \in {"waiting", "returned"}
    /\ i \in DOMAIN pool.w
    /\ pool.w[i].pc = "working"

\* Line 76: the worker call returns; the goroutine selects again.
WorkerReturns(i) ==
    /\ Working(i)
    /\ pool' = [pool EXCEPT !.w[i] = [pc |-> "select", job |-> 0]]
    /\ UNCHANGED <<now, locked, ex, policy, store, cl, tally, mwVars>>

\* Lines 67, 76: the panic of a worker call unwinds the goroutine's loop
\* and is recovered by the deferred function: the goroutine ends.
AfterPanic(p, i) == [p EXCEPT !.w[i] = [pc |-> "exited", job |-> 0]]

WorkerPanics(i) ==
    /\ Working(i)
    /\ pool' = AfterPanic(pool, i)
    /\ UNCHANGED <<now, locked, ex, policy, store, cl, tally, mwVars>>

\* Line 82: every goroutine has ended.
WaitReturns ==
    /\ pool.pc = "waiting"
    /\ \A i \in DOMAIN pool.w : pool.w[i].pc = "exited"
    /\ pool' = [pool EXCEPT !.pc = "returned"]
    /\ UNCHANGED <<now, locked, ex, policy, store, cl, tally, mwVars>>

GoroutineStep(i) ==
    \/ Receive(i)
    \/ Rendezvous(i)
    \/ SeeClosed(i)
    \/ SeeDone(i)
    \/ WorkerReturns(i)
    \/ WorkerPanics(i)

NextPool ==
    \/ Spawn
    \/ Send
    \/ Close
    \/ Cancel
    \/ \E i \in 1 .. MaxSize : Receive(i)
    \/ \E i \in 1 .. MaxSize : Rendezvous(i)
    \/ \E i \in 1 .. MaxSize : SeeClosed(i)
    \/ \E i \in 1 .. MaxSize : SeeDone(i)
    \/ \E i \in 1 .. MaxSize : WorkerReturns(i)
    \/ \E i \in 1 .. MaxSize : WorkerPanics(i)
    \/ WaitReturns

SpecPool == InitPool /\ [][NextPool]_vars

\* The Go scheduler runs every goroutine that can take a step, and a worker
\* call ends.
FairPool ==
    /\ SpecPool
    /\ WF_vars(Spawn)
    /\ WF_vars(WaitReturns)
    /\ \A i \in 1 .. MaxSize : WF_vars(GoroutineStep(i))

PoolWorking == {i \in DOMAIN pool.w : pool.w[i].pc = "working"}

PoolSafe ==
    (pool.pc # "called" /\ ~pool.cancelled) =>
        /\ \A j \in Jobs : pool.handed[j] <= 1
        /\ Cardinality(PoolWorking) <= PoolSize(pool.size)
        /\ pool.size <= 0 => Len(pool.w) = 1
        /\ pool.pc = "returned" =>
               /\ \A j \in 1 .. pool.sent : pool.handed[j] = 1
               /\ PoolWorking = {}

\* C23: with a context that is never cancelled, once the jobs channel is
\* closed BlockingPool returns; it has returned only when every job sent on
\* the channel has been handed to the worker function exactly once and no
\* worker call is running; a size <= 0 runs one worker, and at most size
\* worker calls run at the same time.
C23_PoolCompletion ==
    /\ []PoolSafe
    /\ (pool.closed /\ ~pool.cancelled)
           ~> (pool.pc = "returned" \/ pool.cancelled)

(***************************************************************************)
(* Claims about the arithmetic of the decision.                            *)
(***************************************************************************)
\* usage = cur * Window + prev * (Window - elapsed), over the integers, of
\* the call that client c has finished.
ExactUsage(c) ==
    LET elapsed == Elapsed(cl[c].nowNs, cl[c].idx * policy.window,
                           policy.window)
    IN  Max(cl[c].cur, 0) * policy.window
            + Max(cl[c].prev, 0) * (policy.window - elapsed)

\* ceil(usage / Window), saturating at the largest unsigned word.
ExactCeil(c) ==
    Min((ExactUsage(c) + policy.window - 1) \div policy.window, Word - 1)

\* C24: for all counts, elapsed in [0, Window], Limit and Window of 64 bits,
\* Allowed is the exact comparison usage <= Limit * Window over the integers
\* and Remaining is max(0, Limit - ceil(usage / Window)) with a saturating
\* ceiling: no intermediate addition or multiplication wraps around.
C24_ExactArithmetic ==
    \A c \in DOMAIN cl :
        ~cl[c].res.err =>
            /\ cl[c].res.Allowed
                   <=> (ExactUsage(c) <= policy.limit * policy.window)
            /\ cl[c].res.Remaining = Max(0, policy.limit - ExactCeil(c))

(***************************************************************************)
(* Claims about the default rule of a configuration.                       *)
(***************************************************************************)
\* The compiled RuntimePolicy has a default tier.
HasDefault(p) == p.defaultPolicy # {} \/ DOMAIN p.defaultPolicyByMethod # {}

\* No request without an explicit rule resolves to a policy.
OnlyExplicit(p) ==
    \A routeInfo \in RouteInfo :
        Explicit(p, routeInfo.ID, ToUpper(routeInfo.Method))
            \/ ~findPolicy(p, routeInfo).ok

Resolvable(d) == d.KeyStrategy \in DOMAIN keyStrategies

\* The default rule was treated as absent: it raised no error and, when a
\* RuntimePolicy was returned, it left no default tier in it.
TreatedAsAbsent ==
    /\ rtp.err # "no such default key strategy"
    /\ ~rtp.isNil => (~HasDefault(rtp.rp) /\ OnlyExplicit(rtp.rp))

\* C25 as stated: a default policy is installed only if the default rule
\* has a non-zero Window and a resolvable key strategy; a default rule
\* lacking either is treated as absent.
C25_AsStated ==
    rtp.parsed =>
        LET d == rtp.cfg.DefaultPolicy
        IN  /\ (~rtp.isNil /\ HasDefault(rtp.rp))
                   => (d.Window # 0 /\ Resolvable(d))
            /\ (d.Window = 0 \/ ~Resolvable(d)) => TreatedAsAbsent

\* C25, amended: a default policy is installed only if the default rule has
\* a non-zero Window and a resolvable key strategy; a default rule with a
\* zero Window or an empty key strategy is treated as absent; a default rule
\* with a positive Window and a non-empty key strategy that is not
\* registered makes ParsePolicy fail.
C25_DefaultOnlyWhenComplete ==
    rtp.parsed =>
        LET d == rtp.cfg.DefaultPolicy
        IN  /\ (~rtp.isNil /\ HasDefault(rtp.rp))
                   => (d.Window # 0 /\ Resolvable(d))
            /\ (d.Window = 0 \/ d.KeyStrategy = "") => TreatedAsAbsent
            /\ (d.Window > 0 /\ d.KeyStrategy # "" /\ ~Resolvable(d))
                   => (rtp.isNil /\ rtp.err = "no such default key strategy")

\* A default rule for GET with a registered key strategy and no Window, in
\* a configuration with one explicit rule: compiled, with no default tier.
C25_Witness ==
    /\ rtp.parsed
    /\ ~rtp.isNil
    /\ rtp.cfg.DefaultPolicy =
           [Method |-> "GET", Limit |-> 0, Window |-> 0,
            KeyStrategy |-> "remote_ip"]
    /\ Len(rtp.cfg.Routes) = 1
    /\ Explicit(rtp.rp, "/a", "GET")
    /\ ~findPolicy(rtp.rp, [ID |-> "/b", Method |-> "GET"]).ok
    /\ ~HasDefault(rtp.rp)

\* The request in hand resolved to a policy.
Resolved == Handled /\ req.routeInfo.Method # "" /\ req.found.ok

NoCounterChanged ==
    /\ tally.calls = 0
    /\ \A k \in Idx : store[k].n = 0

\* C26: when the resolved policy has no key extractor the request goes to
\* the next handler, with no limiter invoked, if AllowIfNoIdentifier is true
\* and is rejected otherwise; when the extracted Key is empty and
\* AllowIfNoIdentifier is false the request is rejected with 429 and
\* Limiter.Allow is not invoked: no counter is changed.
C26_MissingIdentifier ==
    /\ (Resolved /\ req.found.px.KeyFn = "nil") =>
           IF rtp.rp.AllowIfNoIdentifier
           THEN req.next = 1 /\ req.allow = 0
           ELSE /\ req.pc = "done" /\ req.status = 429
                /\ req.next = 0 /\ req.allow = 0
    /\ (Resolved /\ req.found.px.KeyFn # "nil" /\ req.key = ""
            /\ ~rtp.rp.AllowIfNoIdentifier) =>
           /\ req.pc = "done" /\ req.status = 429
           /\ req.next = 0 /\ req.allow = 0
    /\ (rtp.parsed /\ ~rtp.isNil /\ req.key = ""
            /\ ~rtp.rp.AllowIfNoIdentifier) => NoCounterChanged

\* The second GET on the limited route with no X-Forwarded-For value,
\* fail-closed: rejected with 429, like the first, with no counter touched.
C26_Witness ==
    /\ Resolved
    /\ req.pc = "done"
    /\ req.served = 2
    /\ req.found.src = "explicit"
    /\ req.found.px.KeyFn = "RemoteIpKeyFunc"
    /\ req.key = RemoteIpKeyFunc("", "addr")
    /\ req.key = ""
    /\ ~rtp.rp.AllowIfNoIdentifier
    /\ req.status = 429
    /\ req.allow = 0
    /\ NoCounterChanged

(***************************************************************************)
(* Claims about the order of the steps of one Execute invocation.          *)
(***************************************************************************)
\* The wait for the minimum hold, if there was one, has ended: its select
\* returned on the timer, on the caller's context or on the lock's context.
WaitEnded(x) ==
    x.waited =>
        \/ x.releasedAt >= MinHoldUntil(x)
        \/ x.relCallerErr # "nil"
        \/ x.relLockErr # "nil"

\* The task is invoked at most once and only after a successful
\* acquisition, and no release precedes the end of the task.
TaskAfterAcquire(x) ==
    /\ x.taskRuns <= 1
    /\ x.taskRuns = 1 => (x.lockerCalls = 1 /\ x.lockerErr = "nil")
    /\ x.released <= 1
    /\ x.pc \in {"idle", "acquiring", "running", "holdwait"} => x.released = 0

\* An invocation that ended in NotAcquired or in an acquisition failure ran
\* no task and called no release function.
NoTaskWithoutLock(x) ==
    (x.pc = "done" /\ x.lockerErr \notin {"none", "nil"}) =>
        (x.taskRuns = 0 /\ x.released = 0 /\ x.taskRet = "none")

\* The wait of a task that returned at an instant the clock can pass.
WaitInReach(x) == TaskReturned(x) /\ MinHoldUntil(x) <= MaxTime

\* C27 as stated: the task is invoked at most once and only after a
\* successful acquisition; the release function is called only after the task
\* has returned and the minimum-hold wait has ended; an invocation that ends
\* in NotAcquired or in an acquisition failure never runs the task and never
\* calls a release function; and if the task returns, Execute terminates.
C27_AsStated ==
    /\ [](\A e \in DOMAIN ex :
              /\ TaskAfterAcquire(ex[e])
              /\ ex[e].released > 0 =>
                     (TaskReturned(ex[e]) /\ WaitEnded(ex[e]))
              /\ NoTaskWithoutLock(ex[e]))
    /\ WaitInReach(ex["e1"]) ~> (ex["e1"].pc = "done")

\* C27, amended: the same, but the release function is called after the task
\* has returned and the minimum-hold wait has ended, or after the task has
\* panicked.
C27_LifecycleOrder ==
    /\ [](\A e \in DOMAIN ex :
              /\ TaskAfterAcquire(ex[e])
              /\ ex[e].released > 0 =>
                     \/ TaskReturned(ex[e]) /\ WaitEnded(ex[e])
                     \/ ex[e].taskRet = "panic"
              /\ NoTaskWithoutLock(ex[e]))
    /\ WaitInReach(ex["e1"]) ~> (ex["e1"].pc = "done")

\* The task returned an error before the minimum hold had passed, the wait
\* ran to the timer and the lock was then released, once.
C27_Witness ==
    /\ ex["e1"].pc = "done"
    /\ ex["e1"].taskRuns = 1
    /\ ex["e1"].taskRet = "taskErr"
    /\ ex["e1"].waited
    /\ ex["e1"].released = 1
    /\ ex["e1"].releasedAt = MinHoldUntil(ex["e1"])
    /\ ex["e1"].relCallerErr = "nil"
    /\ ex["e1"].relLockErr = "nil"
    /\ ex["e1"].result = "taskErr"

(***************************************************************************)
(* Claims about the store calls of one Allow call.                         *)
(***************************************************************************)
\* The step is the increment of client c's call: the counter of the call's
\* window, and no other, is one higher, and no Result was computed.
IncrementStep(c) == cl[c].pc = "idle" /\ cl'[c].pc = "incremented"

CountsOnly(k) ==
    /\ store'[k].n = store[k].n + 1
    /\ \A j \in Idx \ {k} : store'[j] = store[j]

\* C28: every Allow call first increments the counter of its window by
\* exactly one, whatever the decision will be: the call after a denied call
\* of the same window counts one more; the decision follows one read of the
\* previous window's counter, which writes nothing; a call whose increment
\* fails returns an error with no read and no Result.
C28_IncrementFirst ==
    [][\A c \in DOMAIN cl :
          /\ IncrementStep(c) =>
                 /\ CountsOnly(cl'[c].idx)
                 /\ cl'[c].cur = store[cl'[c].idx].n + 1
                 /\ cl'[c].res = cl[c].res
                 /\ tally'.finished = tally.finished
                 /\ (/\ ~cl[c].res.err /\ ~cl[c].res.Allowed
                     /\ cl'[c].idx = cl[c].idx
                     /\ store[cl[c].idx].n = cl[c].cur)
                        => cl'[c].cur = cl[c].cur + 1
          /\ (cl[c].pc = "incremented" /\ cl'[c].pc = "idle") =>
                 /\ store' = store
                 /\ ~cl'[c].res.err =>
                        /\ cl'[c].prev = store[cl[c].idx - 1].n
                        /\ cl'[c].cur = cl[c].cur
                        /\ cl'[c].res =
                               Decide(ToU64(policy.limit), policy.window,
                                      cl[c].nowNs, cl[c].idx, cl[c].cur,
                                      cl'[c].prev)
          /\ (cl[c].pc = "idle" /\ cl'[c].pc = "idle" /\ cl'[c] # cl[c]) =>
                 /\ store' = store
                 /\ cl'[c].res.err
                 /\ cl'[c].prev = cl[c].prev
                 /\ tally'.finished = tally.finished]_vars

\* The call before was denied with the window's counter over the limit, and
\* the present call has counted one more.
C28_Witness ==
    \E c \in DOMAIN cl :
        /\ cl[c].pc = "incremented"
        /\ ~cl[c].res.err
        /\ ~cl[c].res.Allowed
        /\ policy.limit = 1
        /\ cl[c].cur = 3
        /\ store[cl[c].idx].n = 3
        /\ tally.finished[cl[c].idx] = 2
        /\ tally.admitted[cl[c].idx] = 1

(***************************************************************************)
(* Claims about the acquire timeout.                                       *)
(***************************************************************************)
\* C29: in blocking mode with acquireTimeout > 0 and a live caller's
\* context, once the lock is acquired the expiry of acquireTimeout does not
\* end the lock's or the task's context (the task's context ends with
\* DeadlineExceeded only at the deadline of LockAtMostFor), and it does not
\* end the minimum-hold wait before taskStart + LockAtLeastFor.
C29_AcquireTimeoutOnlyAcquires ==
    \A e \in DOMAIN ex :
        LET x == ex[e]
        IN  (x.waitForLock /\ x.acquireTimeout > 0) =>
                /\ (HasLock(x) /\ x.callerErr = "nil") =>
                       /\ x.lockErr # "DeadlineExceeded"
                       /\ x.taskCtxErr = "DeadlineExceeded"
                              => Expired(x.taskDeadline, now)
                /\ (/\ x.pc = "done" /\ x.waited
                    /\ x.relCallerErr = "nil"
                    /\ x.relLockErr # "Canceled")
                       => x.releasedAt >= MinHoldUntil(x)

(***************************************************************************)
(* Claims about a task that panics.                                        *)
(***************************************************************************)
\* C30: when the task panics, Execute does not recover the panic and does
\* not wait for the minimum hold: in the step of the panic the lock is
\* released by the deferred release and the panic leaves Execute, whatever
\* LockAtLeastFor is.
C30_PanicSkipsMinimumHold ==
    [][\A e \in DOMAIN ex :
          (ex[e].pc = "running" /\ ex'[e].taskRet = "panic") =>
              /\ now' = now
              /\ ex'[e].pc = "done"
              /\ ex'[e].result = "panic"
              /\ ~ex'[e].waited
              /\ ex'[e].released = 1
              /\ ex'[e].releasedAt = now
              /\ ex[e].lname \notin locked']_vars

\* The task panicked and the lock was released before
\* taskStart + LockAtLeastFor.
C30_Witness ==
    \E e \in DOMAIN ex :
        /\ ex[e].pc = "done"
        /\ ex[e].taskRet = "panic"
        /\ ex[e].result = "panic"
        /\ ex[e].cfg.LockAtLeastFor = 2
        /\ ex[e].released = 1
        /\ ex[e].releasedAt = ex[e].taskStart + 1
        /\ ex[e].releasedAt < MinHoldUntil(ex[e])
        /\ ex[e].lname \notin locked
====
